---- MODULE Spec2Model ----
(***************************************************************************)
(* Model of the pairing and scoring engine of the badminton tournament     *)
(* application (app/lib/tournament.ts): round generation with partner      *)
(* avoidance, court optimisation, result application and leaderboard sort. *)
(***************************************************************************)
EXTENDS Integers, Sequences, FiniteSets, TLC

\* ------------------------------------------------------------------ bounds
\* Largest roster handed to generateRoundMatchesAvoidingPartners.
MaxPlayers == 5
\* Largest numCourts argument.
MaxCourts == 2
\* Number of consecutive rounds played in the stress run.
MaxRounds == 4
\* Largest score entered for a side.
MaxScore == 2
\* Largest sum of wins of a pair handed to optimizeCourts.
MaxTeamWins == 3
\* Largest id the client hands out to a player.
MaxId == 4
\* Number of rounds the client draws.
ClientRounds == 1
\* Number of courts the matches page draws a round for.
ClientCourts == 1
\* Rounds drawn on each of two devices that share a tournament.
DeviceRounds == 1
\* Longest list handed to sortLeaderboard.
MaxSortLen == 3

\* ------------------------------------------------------- program constants
STREAK_THRESHOLD == 3
\* Costs are kept in hundredths so that the noise terms stay integral.
CostScale == 100
LOW_BALANCE_PENALTY == 300
BASE_NOISE == 15
STREAK_NOISE == 15
MAX_NOISE == 35

VARIABLES
    players,        \* the roster passed to the operation
    numCourts,      \* the numCourts argument
    pastPartners,   \* the partner-key history held by the caller
    callPartners,   \* the history as it was passed to the last call
    result,         \* what the last generateRound call returned or threw
    round,          \* number of generateRound calls made so far
    currentMatches, \* the matches passed to applyResults
    scoresByCourt,  \* the scores passed to applyResults, by court number
    applied,        \* what the last applyResults call returned or threw
    leaderboard,    \* what the last sortLeaderboard call returned
    built,          \* the last buildPairs call: its arguments and its outcome
    optimized,      \* the last optimizeCourts call: its arguments and its outcome
    client,         \* the tournament state held by the client (TournamentProvider)
    remote,         \* the record stored on the server under the tournament id
    removedIds,     \* the ids removed from the client's roster since the last reset
    lastOp,         \* the client operation that ran last, and whether its request succeeded
    other,          \* the tournament state held by a second client of the same tournament
    poll            \* the polling effect of the leaderboard page

roundVars == <<numCourts, pastPartners, callPartners, result, round>>
applyVars == <<currentMatches, scoresByCourt, applied>>
searchVars == <<built, optimized>>
deviceVars == <<other, poll>>
clientVars == <<client, remote, removedIds, lastOp, deviceVars>>
vars == <<players, roundVars, applyVars, leaderboard, searchVars, clientVars>>

\* Delay of the poll timer and of the retry timer of the leaderboard page, in ms.
POLL_MS == 15000
RETRY_MS == 500

\* ------------------------------------------------------------------ helpers
Min(S) == CHOOSE x \in S : \A y \in S : x <= y
Max(S) == CHOOSE x \in S : \A y \in S : x >= y
Abs(x) == IF x < 0 THEN -x ELSE x
Range(s) == {s[i] : i \in 1..Len(s)}

RECURSIVE SeqOf(_, _)
\* The sequence f[1], ..., f[n] as a tuple.
SeqOf(f, n) == IF n = 0 THEN <<>> ELSE Append(SeqOf(f, n - 1), f[n])

\* Display names of the players, by id.
NameOf(id) == "P" \o ToString(id)

Player(id, wins, pointDiff, lossStreak) ==
    [id |-> id, name |-> NameOf(id), wins |-> wins,
     pointDiff |-> pointDiff, lossStreak |-> lossStreak]

\* Mutant of partnerKey: the higher id first.
partnerKeyHighFirst(a, b) ==
    IF a.id < b.id THEN ToString(b.id) \o "-" \o ToString(a.id)
                   ELSE ToString(a.id) \o "-" \o ToString(b.id)

\* partnerKey: `${min}-${max}` of the two ids.
partnerKey(a, b) ==
    IF a.id < b.id THEN ToString(a.id) \o "-" \o ToString(b.id)
                   ELSE ToString(b.id) \o "-" \o ToString(a.id)

\* ------------------------------------------------------------- buildPairs
\* candidates.sort(...): when p1 is not streaking the comparator is a coin
\* flip, so any candidate may come next; when p1 is streaking the comparator
\* is (b.wins - a.wins) + noise with |noise| <= 0.1, so a candidate with the
\* highest win count among those left comes next and ties fall either way.
NextCandidates(shuffled, first, cands) ==
    IF shuffled[first].lossStreak >= STREAK_THRESHOLD
    THEN {j \in cands : \A k \in cands : shuffled[j].wins >= shuffled[k].wins}
    ELSE cands

RECURSIVE buildPairs(_, _, _, _, _)
RECURSIVE candidateLoop(_, _, _, _, _, _, _, _)

\* Mutant of candidateLoop: used[j] is not cleared when a candidate is undone.
candidateLoopKeepsUsed(shuffled, used, current, past, allowRepeat, first, cands, calls) ==
    IF cands = {}
    THEN {[ok |-> FALSE, used |-> [used EXCEPT ![first] = FALSE], current |-> current]}
    ELSE UNION {
        LET rest == cands \ {j}
            alreadyPartners == partnerKey(shuffled[first], shuffled[j]) \in past
        IN  IF ~allowRepeat /\ alreadyPartners
            THEN candidateLoop(shuffled, used, current, past, allowRepeat, first, rest, calls)
            ELSE LET sub == buildPairs(shuffled, [used EXCEPT ![j] = TRUE],
                                       Append(current, [p1 |-> shuffled[first], p2 |-> shuffled[j]]),
                                       past, allowRepeat)
                 IN  {r \in sub : r.ok}
                     \cup UNION {
                        candidateLoop(shuffled, r.used,
                                      SubSeq(r.current, 1, Len(r.current) - 1),
                                      past, allowRepeat, first, rest, calls)
                        : r \in {q \in sub : ~q.ok}}
        : j \in NextCandidates(shuffled, first, cands)}

\* Mutant of candidateLoop: a past partner is skipped also when allowRepeat
\* is set.
candidateLoopAlwaysStrict(shuffled, used, current, past, allowRepeat, first, cands, calls) ==
    IF cands = {}
    THEN {[ok |-> FALSE, used |-> [used EXCEPT ![first] = FALSE], current |-> current]}
    ELSE UNION {
        LET rest == cands \ {j}
            alreadyPartners == partnerKey(shuffled[first], shuffled[j]) \in past
        IN  IF alreadyPartners
            THEN candidateLoop(shuffled, used, current, past, allowRepeat, first, rest, calls)
            ELSE LET sub == buildPairs(shuffled, [used EXCEPT ![j] = TRUE],
                                       Append(current, [p1 |-> shuffled[first], p2 |-> shuffled[j]]),
                                       past, allowRepeat)
                 IN  {r \in sub : r.ok}
                     \cup UNION {
                        candidateLoop(shuffled, [r.used EXCEPT ![j] = FALSE],
                                      SubSeq(r.current, 1, Len(r.current) - 1),
                                      past, allowRepeat, first, rest, calls)
                        : r \in {q \in sub : ~q.ok}}
        : j \in NextCandidates(shuffled, first, cands)}

\* The candidate loop of buildPairs for p1 = shuffled[first]; cands are the
\* candidate indices not tried yet.  Yields every outcome the call can have:
\* [ok, used, current] with used and current as the call leaves them.
\* calls remembers the outcomes of the recursive call per candidate for the
\* arguments (calls.used, calls.current), so that a repeated call with the
\* same arguments is not evaluated again.
candidateLoop(shuffled, used, current, past, allowRepeat, first, cands, calls) ==
    IF cands = {}
    THEN {[ok |-> FALSE, used |-> [used EXCEPT ![first] = FALSE], current |-> current]}
    ELSE UNION {
        LET rest == cands \ {j}
            alreadyPartners == partnerKey(shuffled[first], shuffled[j]) \in past
        IN  IF ~allowRepeat /\ alreadyPartners
            THEN candidateLoop(shuffled, used, current, past, allowRepeat, first, rest, calls)
            ELSE LET sub == IF used = calls.used /\ current = calls.current
                            THEN calls.outcomes[j]
                            ELSE buildPairs(shuffled, [used EXCEPT ![j] = TRUE],
                                            Append(current, [p1 |-> shuffled[first], p2 |-> shuffled[j]]),
                                            past, allowRepeat)
                 IN  {r \in sub : r.ok}
                     \cup UNION {
                        candidateLoop(shuffled, [r.used EXCEPT ![j] = FALSE],
                                      SubSeq(r.current, 1, Len(r.current) - 1),
                                      past, allowRepeat, first, rest, calls)
                        : r \in {q \in sub : ~q.ok}}
        : j \in NextCandidates(shuffled, first, cands)}

\* buildPairs from the point where used[first] has been set.
TryCandidates(shuffled, used, current, past, allowRepeat, first, cands) ==
    candidateLoop(shuffled, used, current, past, allowRepeat, first, cands,
        [used |-> used, current |-> current,
         outcomes |-> SeqOf([j \in 1..Len(shuffled) |->
                               IF j \in cands
                                  /\ (allowRepeat \/ partnerKey(shuffled[first], shuffled[j]) \notin past)
                               THEN buildPairs(shuffled, [used EXCEPT ![j] = TRUE],
                                               Append(current, [p1 |-> shuffled[first], p2 |-> shuffled[j]]),
                                               past, allowRepeat)
                               ELSE {}],
                            Len(shuffled))])

buildPairs(shuffled, used, current, past, allowRepeat) ==
    LET n == Len(shuffled)
        unused == {i \in 1..n : ~used[i]}
    IN  IF unused = {}
        THEN {[ok |-> TRUE, used |-> used, current |-> current]}
        ELSE LET first == Min(unused)
                 used1 == [used EXCEPT ![first] = TRUE]
             IN  TryCandidates(shuffled, used1, current, past, allowRepeat, first,
                               {j \in (first + 1)..n : ~used1[j]})

\* ------------------------------------------------------------ optimizeCourts
teamWins(p) == p.p1.wins + p.p2.wins

hasStreaker(p) == p.p1.lossStreak >= 3 \/ p.p2.lossStreak >= 3

\* Math.min(rawNoise, MAX_NOISE)
noiseMagnitude(a, b) ==
    LET rawNoise == BASE_NOISE + (IF hasStreaker(a) \/ hasStreaker(b) THEN STREAK_NOISE ELSE 0)
    IN  IF rawNoise < MAX_NOISE THEN rawNoise ELSE MAX_NOISE

\* (Math.random() * 2 - 1) * noiseMagnitude lies in [-m, m); the model draws
\* the lowest value, zero and the highest value of that range in hundredths.
NoiseValues(a, b) ==
    LET m == noiseMagnitude(a, b) IN {-m, 0, m - 1}

\* Mutant of baseCost: the low-balance penalty does not ask for a streaker.
baseCostPenaltyForAll(a, b) ==
    LET d == teamWins(a) - teamWins(b)
        imbalance == Abs(d)
        lowBalancePenalty ==
            IF imbalance >= 3 THEN (imbalance - 2) * LOW_BALANCE_PENALTY ELSE 0
    IN  imbalance * CostScale + lowBalancePenalty

\* courtCost without its random term, in hundredths.
baseCost(a, b) ==
    LET d == teamWins(a) - teamWins(b)
        imbalance == Abs(d)
        streakersPresent == hasStreaker(a) \/ hasStreaker(b)
        lowBalancePenalty ==
            IF streakersPresent /\ imbalance >= 3
            THEN (imbalance - 2) * LOW_BALANCE_PENALTY ELSE 0
    IN  imbalance * CostScale + lowBalancePenalty

courtCost(a, b, noise) == baseCost(a, b) + noise

RemoveAt(s, k) == SubSeq(s, 1, k - 1) \o SubSeq(s, k + 1, Len(s))
InsertAt(s, k, e) == SubSeq(s, 1, k - 1) \o <<e>> \o SubSeq(s, k, Len(s))

RECURSIVE dfs(_, _, _)
RECURSIVE dfsLoop(_, _, _, _)

\* Mutant of dfsLoop: the undo puts second back at the end of remaining.
dfsLoopUndoAtEnd(st0, nc, costSoFar, i) ==
    IF i >= Len(st0.remaining)
    THEN {st0}
    ELSE LET first == st0.remaining[1]
             second == st0.remaining[i + 1]
         IN  UNION {
                LET c == courtCost(first, second, noise)
                    st == [st0 EXCEPT !.maxNoise = IF Abs(noise) > @ THEN Abs(noise) ELSE @]
                IN  IF st.found /\ costSoFar + c >= st.bestCost
                    THEN dfsLoop(st, nc, costSoFar, i + 1)
                    ELSE LET chose == [st EXCEPT
                                 !.remaining = RemoveAt(RemoveAt(st.remaining, i + 1), 1),
                                 !.chosen = st.chosen \o <<first, second>>]
                         IN  UNION {
                                dfsLoop([back EXCEPT
                                            !.chosen = SubSeq(back.chosen, 1, Len(back.chosen) - 2),
                                            !.remaining = Append(<<first>> \o back.remaining, second)],
                                        nc, costSoFar, i + 1)
                                : back \in dfs(chose, nc, costSoFar + c)}
                : noise \in NoiseValues(first, second)}

\* The for loop of dfs from 0-based index i on.  st0 holds the closure's
\* variables: remaining, chosen, best (found = best is not null) and bestCost;
\* its maxNoise is no variable of the code: it records the largest magnitude
\* of the noise drawn by the courtCost calls so far.
dfsLoop(st0, nc, costSoFar, i) ==
    IF i >= Len(st0.remaining)
    THEN {st0}
    ELSE LET first == st0.remaining[1]
             second == st0.remaining[i + 1]
         IN  UNION {
                LET c == courtCost(first, second, noise)
                    st == [st0 EXCEPT !.maxNoise = IF Abs(noise) > @ THEN Abs(noise) ELSE @]
                IN  IF st.found /\ costSoFar + c >= st.bestCost
                    THEN dfsLoop(st, nc, costSoFar, i + 1)
                    ELSE LET chose == [st EXCEPT
                                 !.remaining = RemoveAt(RemoveAt(st.remaining, i + 1), 1),
                                 !.chosen = st.chosen \o <<first, second>>]
                         IN  UNION {
                                dfsLoop([back EXCEPT
                                            !.chosen = SubSeq(back.chosen, 1, Len(back.chosen) - 2),
                                            !.remaining = InsertAt(<<first>> \o back.remaining, i + 1, second)],
                                        nc, costSoFar, i + 1)
                                : back \in dfs(chose, nc, costSoFar + c)}
                : noise \in NoiseValues(first, second)}

dfs(st, nc, costSoFar) ==
    IF Len(st.chosen) = nc * 2
    THEN IF ~st.found \/ costSoFar < st.bestCost
         THEN {[st EXCEPT !.found = TRUE, !.bestCost = costSoFar, !.best = st.chosen]}
         ELSE {st}
    ELSE dfsLoop(st, nc, costSoFar, 1)

\* Every final state of the search; best is meaningful when found is TRUE
\* (found = FALSE is the null return).
optimizeCourts(pairs, nc) ==
    dfs([remaining |-> pairs, chosen |-> <<>>, found |-> FALSE,
         bestCost |-> 0, best |-> <<>>, maxNoise |-> 0], nc, 0)

\* ------------------------------------------- generateRoundMatchesAvoidingPartners
Swap(s, i, j) == [s EXCEPT ![i] = s[j], ![j] = s[i]]

RECURSIVE FisherYates(_, _)
\* The shuffle loop from 0-based index i down to 1, j drawn from 0..i.
FisherYates(s, i) ==
    IF i <= 0 THEN {s}
    ELSE UNION {FisherYates(Swap(s, i + 1, j + 1), i - 1) : j \in 0..i}

Shuffles(ps) == FisherYates(ps, Len(ps) - 1)

RECURSIVE matchesFromPairsSameTeam(_, _, _, _)
\* Mutant of matchesFromPairs: side2 is taken from the pair of side1.
matchesFromPairsSameTeam(orderedPairs, nc, i, court) ==
    IF i + 1 < Len(orderedPairs) /\ court <= nc
    THEN <<[courtNumber |-> court,
            side1 |-> <<orderedPairs[i + 1].p1, orderedPairs[i + 1].p2>>,
            side2 |-> <<orderedPairs[i + 1].p1, orderedPairs[i + 1].p2>>]>>
         \o matchesFromPairsSameTeam(orderedPairs, nc, i + 2, court + 1)
    ELSE <<>>

RECURSIVE matchesFromPairsCourtKept(_, _, _, _)
\* Mutant of matchesFromPairs: court is not advanced after a match.
matchesFromPairsCourtKept(orderedPairs, nc, i, court) ==
    IF i + 1 < Len(orderedPairs) /\ court <= nc
    THEN <<[courtNumber |-> court,
            side1 |-> <<orderedPairs[i + 1].p1, orderedPairs[i + 1].p2>>,
            side2 |-> <<orderedPairs[i + 2].p1, orderedPairs[i + 2].p2>>]>>
         \o matchesFromPairsCourtKept(orderedPairs, nc, i + 2, court)
    ELSE <<>>

RECURSIVE matchesFromPairs(_, _, _, _)
\* for (i = 0; i + 1 < orderedPairs.length && court <= numCourts; i += 2)
matchesFromPairs(orderedPairs, nc, i, court) ==
    IF i + 1 < Len(orderedPairs) /\ court <= nc
    THEN <<[courtNumber |-> court,
            side1 |-> <<orderedPairs[i + 1].p1, orderedPairs[i + 1].p2>>,
            side2 |-> <<orderedPairs[i + 2].p1, orderedPairs[i + 2].p2>>]>>
         \o matchesFromPairs(orderedPairs, nc, i + 2, court + 1)
    ELSE <<>>

RECURSIVE matchesFromShuffledOverlap(_, _, _, _)
\* Mutant of matchesFromShuffled: side2 starts one index early.
matchesFromShuffledOverlap(shuffled, nc, i, court) ==
    IF i + 3 < Len(shuffled) /\ court <= nc
    THEN <<[courtNumber |-> court,
            side1 |-> <<shuffled[i + 1], shuffled[i + 2]>>,
            side2 |-> <<shuffled[i + 2], shuffled[i + 3]>>]>>
         \o matchesFromShuffledOverlap(shuffled, nc, i + 4, court + 1)
    ELSE <<>>

RECURSIVE matchesFromShuffled(_, _, _, _)
\* for (i = 0; i + 3 < shuffled.length && court <= numCourts; i += 4)
matchesFromShuffled(shuffled, nc, i, court) ==
    IF i + 3 < Len(shuffled) /\ court <= nc
    THEN <<[courtNumber |-> court,
            side1 |-> <<shuffled[i + 1], shuffled[i + 2]>>,
            side2 |-> <<shuffled[i + 3], shuffled[i + 4]>>]>>
         \o matchesFromShuffled(shuffled, nc, i + 4, court + 1)
    ELSE <<>>

NotEnoughPlayers == "Not enough players for all courts"

Threw(msg) ==
    [kind |-> "error", error |-> msg, matches |-> <<>>, usedPairs |-> <<>>, fallback |-> FALSE]

Returned(matches, usedPairs, fallback) ==
    [kind |-> "ok", error |-> "", matches |-> matches, usedPairs |-> usedPairs, fallback |-> fallback]

\* Mutant of roundFromPairs: usedPairs is reported only when not in fallback.
roundFromPairsNoPairsOnFallback(roundPairs, nc, fallback) ==
    {Returned(matchesFromPairs(IF o.found THEN o.best ELSE roundPairs, nc, 0, 1),
              IF fallback THEN <<>> ELSE roundPairs, fallback)
     : o \in optimizeCourts(roundPairs, nc)}

\* The part of generateRound after a successful buildPairs.
roundFromPairs(roundPairs, nc, fallback) ==
    {Returned(matchesFromPairs(IF o.found THEN o.best ELSE roundPairs, nc, 0, 1),
              roundPairs, fallback)
     : o \in optimizeCourts(roundPairs, nc)}

\* Mutant of roundFromShuffle: the relaxed attempt does not set fallback.
roundFromShuffleNoFlag(shuffled, nc, past) ==
    LET fresh == SeqOf([i \in 1..Len(shuffled) |-> FALSE], Len(shuffled))
        strict == buildPairs(shuffled, fresh, <<>>, past, FALSE)
        relaxed == buildPairs(shuffled, fresh, <<>>, past, TRUE)
    IN  UNION {roundFromPairs(s.current, nc, FALSE) : s \in {q \in strict : q.ok}}
        \cup (IF \E s \in strict : ~s.ok
              THEN UNION {roundFromPairs(r.current, nc, FALSE) : r \in {q \in relaxed : q.ok}}
                   \cup (IF \E r \in relaxed : ~r.ok
                         THEN {Returned(matchesFromShuffled(shuffled, nc, 0, 1), <<>>, TRUE)}
                         ELSE {})
              ELSE {})

\* Mutant of roundFromShuffle: a failed strict search goes straight to the
\* total fallback.
roundFromShuffleNoRelaxed(shuffled, nc, past) ==
    LET fresh == SeqOf([i \in 1..Len(shuffled) |-> FALSE], Len(shuffled))
        strict == buildPairs(shuffled, fresh, <<>>, past, FALSE)
    IN  UNION {roundFromPairs(s.current, nc, FALSE) : s \in {q \in strict : q.ok}}
        \cup (IF \E s \in strict : ~s.ok
              THEN {Returned(matchesFromShuffled(shuffled, nc, 0, 1), <<>>, TRUE)}
              ELSE {})

\* Mutant of roundFromShuffle: a relaxed round reports fallback only when a
\* pair that plays has partnered before.
roundFromShuffleFlagIfRepeatPlays(shuffled, nc, past) ==
    LET fresh == SeqOf([i \in 1..Len(shuffled) |-> FALSE], Len(shuffled))
        strict == buildPairs(shuffled, fresh, <<>>, past, FALSE)
        relaxed == buildPairs(shuffled, fresh, <<>>, past, TRUE)
        repeats(ms) == \E m \in Range(ms) :
                          \/ partnerKey(m.side1[1], m.side1[2]) \in past
                          \/ partnerKey(m.side2[1], m.side2[2]) \in past
    IN  UNION {roundFromPairs(s.current, nc, FALSE) : s \in {q \in strict : q.ok}}
        \cup (IF \E s \in strict : ~s.ok
              THEN {[x EXCEPT !.fallback = repeats(x.matches)]
                    : x \in UNION {roundFromPairs(r.current, nc, TRUE)
                                   : r \in {q \in relaxed : q.ok}}}
                   \cup (IF \E r \in relaxed : ~r.ok
                         THEN {Returned(matchesFromShuffled(shuffled, nc, 0, 1), <<>>, TRUE)}
                         ELSE {})
              ELSE {})

\* generateRound once the shuffle is fixed.
roundFromShuffle(shuffled, nc, past) ==
    LET fresh == SeqOf([i \in 1..Len(shuffled) |-> FALSE], Len(shuffled))
        strict == buildPairs(shuffled, fresh, <<>>, past, FALSE)
        relaxed == buildPairs(shuffled, fresh, <<>>, past, TRUE)
    IN  UNION {roundFromPairs(s.current, nc, FALSE) : s \in {q \in strict : q.ok}}
        \cup (IF \E s \in strict : ~s.ok
              THEN UNION {roundFromPairs(r.current, nc, TRUE) : r \in {q \in relaxed : q.ok}}
                   \cup (IF \E r \in relaxed : ~r.ok
                         THEN {Returned(matchesFromShuffled(shuffled, nc, 0, 1), <<>>, TRUE)}
                         ELSE {})
              ELSE {})

\* Mutant of generateRoundMatchesAvoidingPartners: the guard asks for two
\* players per court only.
generateRoundTwoPerCourt(ps, nc, past) ==
    IF Len(ps) < nc * 2
    THEN {Threw(NotEnoughPlayers)}
    ELSE UNION {roundFromShuffle(sh, nc, past) : sh \in Shuffles(ps)}

\* Every result generateRoundMatchesAvoidingPartners can produce.
generateRoundMatchesAvoidingPartners(ps, nc, past) ==
    IF Len(ps) < nc * 4
    THEN {Threw(NotEnoughPlayers)}
    ELSE UNION {roundFromShuffle(sh, nc, past) : sh \in Shuffles(ps)}

\* ------------------------------------------------------------- applyResults
\* A score is a JavaScript number: a finite value or one of NaN, -Infinity.
Num(v) == [kind |-> "num", v |-> v]
NaN == [kind |-> "NaN", v |-> 0]
NegInfinity == [kind |-> "-Infinity", v |-> 0]

\* Number.isFinite
isFinite(x) == x.kind = "num"

\* x < 0 on numbers: NaN compares false, -Infinity is below every number.
isNegative(x) == x.kind = "-Infinity" \/ (x.kind = "num" /\ x.v < 0)

\* s1 === s2 on numbers: NaN equals nothing.
strictEquals(x, y) == x.kind # "NaN" /\ x = y

\* players.map(p => ({...p, lossStreak: typeof p.lossStreak === "number" ? p.lossStreak : 0}))
\* The spread keeps every field of p, the legacy score field included.
clonePlayers(ps) ==
    SeqOf([i \in 1..Len(ps) |->
              IF "lossStreak" \in DOMAIN ps[i] THEN ps[i]
              ELSE ps[i] @@ [lossStreak |-> 0]],
          Len(ps))

\* Mutant of byId: the id is taken for the position in the collection.
byIdAsIndex(updated, id) == IF id <= Len(updated) THEN id ELSE 0

\* byId.get(id): the index in updated of the last player set under that id,
\* 0 when there is none.
byId(updated, id) ==
    LET at == {i \in 1..Len(updated) : updated[i].id = id}
    IN  IF at = {} THEN 0 ELSE Max(at)

\* One of the two side loops of a match, from the k-th player of the side on:
\* delta is what the loop adds to pointDiff (diff for side1, -diff for side2)
\* and won tells whether the side is the winner side.
RECURSIVE updateSide(_, _, _, _, _)
updateSide(updated, side, k, delta, won) ==
    IF k > Len(side) THEN updated
    ELSE LET i == byId(updated, side[k].id)
         IN  IF i = 0
             THEN updateSide(updated, side, k + 1, delta, won)
             ELSE updateSide(
                    [updated EXCEPT ![i] =
                        [@ EXCEPT !.pointDiff = @ + delta,
                                  !.wins = IF won THEN @ + 1 ELSE @,
                                  !.lossStreak = IF won THEN 0 ELSE @ + 1]],
                    side, k + 1, delta, won)

MissingScore(court) == "Missing score for court " \o ToString(court)
InvalidScore(court) == "Invalid score on court " \o ToString(court)
NegativeScore(court) == "Negative score on court " \o ToString(court)
EqualScore(court) == "Scores cannot be equal on court " \o ToString(court)

\* Mutant of scoreError: the equality check comes before the sign check.
scoreErrorEqualFirst(match, scores) ==
    IF match.courtNumber \notin DOMAIN scores
    THEN MissingScore(match.courtNumber)
    ELSE LET s1 == scores[match.courtNumber].side1
             s2 == scores[match.courtNumber].side2
         IN  IF ~isFinite(s1) \/ ~isFinite(s2) THEN InvalidScore(match.courtNumber)
             ELSE IF strictEquals(s1, s2) THEN EqualScore(match.courtNumber)
             ELSE IF isNegative(s1) \/ isNegative(s2) THEN NegativeScore(match.courtNumber)
             ELSE ""

\* The validation of one match's score: the message thrown, "" when valid.
scoreError(match, scores) ==
    IF match.courtNumber \notin DOMAIN scores
    THEN MissingScore(match.courtNumber)
    ELSE LET s1 == scores[match.courtNumber].side1
             s2 == scores[match.courtNumber].side2
         IN  IF ~isFinite(s1) \/ ~isFinite(s2) THEN InvalidScore(match.courtNumber)
             ELSE IF isNegative(s1) \/ isNegative(s2) THEN NegativeScore(match.courtNumber)
             ELSE IF strictEquals(s1, s2) THEN EqualScore(match.courtNumber)
             ELSE ""

\* Mutant of matchLoop: side2 gets diff added like side1.
RECURSIVE matchLoopSide2Adds(_, _, _, _)
matchLoopSide2Adds(updated, ms, scores, k) ==
    IF k > Len(ms) THEN [error |-> "", updated |-> updated]
    ELSE IF scoreError(ms[k], scores) # ""
    THEN [error |-> scoreError(ms[k], scores), updated |-> updated]
    ELSE LET diff == scores[ms[k].courtNumber].side1.v - scores[ms[k].courtNumber].side2.v
             side1Won == diff > 0
             after1 == updateSide(updated, ms[k].side1, 1, diff, side1Won)
             after2 == updateSide(after1, ms[k].side2, 1, diff, ~side1Won)
         IN  matchLoopSide2Adds(after2, ms, scores, k + 1)

\* Mutant of matchLoop: the loop over side2 is left out.
RECURSIVE matchLoopSide2Skipped(_, _, _, _)
matchLoopSide2Skipped(updated, ms, scores, k) ==
    IF k > Len(ms) THEN [error |-> "", updated |-> updated]
    ELSE IF scoreError(ms[k], scores) # ""
    THEN [error |-> scoreError(ms[k], scores), updated |-> updated]
    ELSE LET diff == scores[ms[k].courtNumber].side1.v - scores[ms[k].courtNumber].side2.v
             side1Won == diff > 0
             after1 == updateSide(updated, ms[k].side1, 1, diff, side1Won)
         IN  matchLoopSide2Skipped(after1, ms, scores, k + 1)

\* The loop over the matches from the k-th on; updated is the working copy.
\* Yields the error thrown ("" when none) and the working copy at that point.
RECURSIVE matchLoop(_, _, _, _)
matchLoop(updated, ms, scores, k) ==
    IF k > Len(ms) THEN [error |-> "", updated |-> updated]
    ELSE IF scoreError(ms[k], scores) # ""
    THEN [error |-> scoreError(ms[k], scores), updated |-> updated]
    ELSE LET diff == scores[ms[k].courtNumber].side1.v - scores[ms[k].courtNumber].side2.v
             side1Won == diff > 0
             after1 == updateSide(updated, ms[k].side1, 1, diff, side1Won)
             after2 == updateSide(after1, ms[k].side2, 1, -diff, ~side1Won)
         IN  matchLoop(after2, ms, scores, k + 1)

\* Mutant of applyResults: no clone, the players passed in are updated in place.
applyResultsInPlace(ps, ms, scores) ==
    LET end == matchLoop(ps, ms, scores, 1)
    IN  [kind |-> IF end.error = "" THEN "ok" ELSE "error",
         error |-> end.error,
         updated |-> IF end.error = "" THEN end.updated ELSE <<>>,
         players |-> end.updated]

\* applyResults: kind "ok" with the returned collection, or kind "error" with
\* the message thrown; players is the caller's collection after the call.
applyResults(ps, ms, scores) ==
    LET end == matchLoop(clonePlayers(ps), ms, scores, 1)
    IN  [kind |-> IF end.error = "" THEN "ok" ELSE "error",
         error |-> end.error,
         updated |-> IF end.error = "" THEN end.updated ELSE <<>>,
         players |-> ps]

\* ----------------------------------------------------------- sortLeaderboard
\* The names the sorted lists are drawn with, and their rank in the collation
\* String.prototype.localeCompare uses: letters first, and for equal letters
\* lower case before upper case (so "bob" < "Bob", while "Bob" < "bob" by
\* code units).
SortNames == {"Alice", "bob", "Bob"}

collationRank(name) ==
    IF name = "Alice" THEN 1 ELSE IF name = "bob" THEN 2 ELSE 3

\* a.localeCompare(b): negative, zero or positive.
localeCompare(a, b) == collationRank(a) - collationRank(b)

\* Mutant of compareLeaderboard: wins ascending.
compareLeaderboardWinsAscending(a, b) ==
    IF b.wins # a.wins THEN a.wins - b.wins
    ELSE IF b.pointDiff # a.pointDiff THEN b.pointDiff - a.pointDiff
    ELSE localeCompare(a.name, b.name)

\* The comparator of sortLeaderboard.
compareLeaderboard(a, b) ==
    IF b.wins # a.wins THEN b.wins - a.wins
    ELSE IF b.pointDiff # a.pointDiff THEN b.pointDiff - a.pointDiff
    ELSE localeCompare(a.name, b.name)

\* x put into the sorted list s behind every element that does not come
\* after it (Array.prototype.sort is stable).
RECURSIVE insertSorted(_, _)
insertSorted(s, x) ==
    IF s = <<>> THEN <<x>>
    ELSE IF compareLeaderboard(x, Head(s)) < 0
    THEN <<x>> \o s
    ELSE <<Head(s)>> \o insertSorted(Tail(s), x)

RECURSIVE stableSort(_, _)
\* Array.prototype.sort with compareLeaderboard, from the k-th element on.
stableSort(s, k) ==
    IF k = 0 THEN <<>> ELSE insertSorted(stableSort(s, k - 1), s[k])

\* Mutant of sortLeaderboard: the list passed in is sorted in place.
sortLeaderboardInPlace(ps) ==
    [kind |-> "ok", sorted |-> stableSort(ps, Len(ps)), players |-> stableSort(ps, Len(ps))]

\* sortLeaderboard: the list returned and the caller's list after the call.
sortLeaderboard(ps) ==
    [kind |-> "ok", sorted |-> stableSort(ps, Len(ps)), players |-> ps]

\* ------------------------------------------------------------ caller's inputs
\* The key of two ids as the tests and the page write it: "<low>-<high>".
KeyOfIds(a, b) ==
    ToString(IF a < b THEN a ELSE b) \o "-" \o ToString(IF a < b THEN b ELSE a)

\* Win and loss-streak records the rosters are drawn with: a fresh tournament,
\* and one in progress where player 1 is on a losing streak.
StatProfiles == {"fresh", "midway"}

winsIn(profile, id) ==
    IF profile = "fresh" \/ id = 1 THEN 0 ELSE IF id = 2 THEN 2 ELSE id % 2

lossStreakIn(profile, id) ==
    IF profile = "midway" /\ id = 1 THEN STREAK_THRESHOLD ELSE 0

pointDiffIn(profile, id) ==
    IF profile = "fresh" THEN 0 ELSE (id % 3) - 1

Roster(n, profile) ==
    SeqOf([i \in 1..n |-> Player(i, winsIn(profile, i), pointDiffIn(profile, i),
                                  lossStreakIn(profile, i))], n)

\* The partner histories the calls are made with: the empty one, the two of
\* the tests, and others that block one player, one pairing or all of them
\* among the ids 1..4 (ids that may or may not be in the roster).
Histories ==
    { {},
      {"1-2"},
      {"1-2", "3-4"},
      {"1-3", "2-4"},
      {"1-2", "1-3"},
      {"1-2", "1-3", "1-4"},
      {"1-2", "1-3", "2-3"},
      {"2-3", "2-4", "3-4"},
      {"1-2", "3-4", "1-3", "2-4"},
      {"1-2", "1-3", "1-4", "2-3"},
      {"1-2", "1-3", "1-4", "2-3", "2-4"},
      {"1-2", "1-3", "1-4", "2-3", "2-4", "3-4"} }

NoApplied == [kind |-> "none", error |-> "", updated |-> <<>>, players |-> <<>>]

NoLeaderboard == [kind |-> "none", sorted |-> <<>>, players |-> <<>>]

NoResult ==
    [kind |-> "none", error |-> "", matches |-> <<>>, usedPairs |-> <<>>, fallback |-> FALSE]

NoBuilt ==
    [kind |-> "none", shuffled |-> <<>>, past |-> {}, allowRepeat |-> FALSE,
     ok |-> FALSE, used |-> <<>>, current |-> <<>>]

NoOptimized ==
    [kind |-> "none", pairs |-> <<>>, nc |-> 0, remaining |-> <<>>, chosen |-> <<>>,
     found |-> FALSE, bestCost |-> 0, best |-> <<>>, maxNoise |-> 0]

\* The state the provider is constructed with (the useState initial values).
InitialClient ==
    [players |-> <<>>, roundNumber |-> 0, pastPartners |-> <<>>, nextId |-> 1,
     currentMatches |-> <<>>, currentWinners |-> <<>>]

\* kv.get of a key that was never set.
NoRecord == [kind |-> "null"]

\* The record kept of a client operation: its name, whether its request
\* succeeded (for addPlayer: what it returned), and what was typed in for it.
OpWith(name, ok, input) == [name |-> name, ok |-> ok, input |-> input]

Op(name, ok) == OpWith(name, ok, <<>>)

\* No client operation has run yet.
NoOp == Op("none", TRUE)

\* No buildPairs or optimizeCourts call of its own is made.
SearchIdle == built = NoBuilt /\ optimized = NoOptimized

\* The polling effect before the leaderboard page is mounted.
NoPoll ==
    [timer |-> 0, pending |-> {}, inFlight |-> FALSE, stopped |-> FALSE,
     visible |-> TRUE, listening |-> FALSE, requests |-> 0, event |-> "none"]

\* There is no second client and no leaderboard page.
DevicesIdle == other = InitialClient /\ poll = NoPoll

\* The client is not part of the run.
ClientIdle ==
    /\ client = InitialClient /\ remote = NoRecord /\ removedIds = {} /\ lastOp = NoOp
    /\ DevicesIdle

\* ------------------------------------------------------------------ actions
\* The partner keys the caller derives from usedPairs and merges into its
\* history before the next call.
keysOfUsedPairs(usedPairs) ==
    {IF pr.p1.id < pr.p2.id
        THEN ToString(pr.p1.id) \o "-" \o ToString(pr.p2.id)
        ELSE ToString(pr.p2.id) \o "-" \o ToString(pr.p1.id)
     : pr \in Range(usedPairs)}

\* One call of generateRoundMatchesAvoidingPartners by the caller, which then
\* merges the keys of usedPairs into pastPartners.
Generate ==
    /\ \E r \in generateRoundMatchesAvoidingPartners(players, numCourts, pastPartners) :
          /\ result' = r
          /\ pastPartners' = pastPartners \cup keysOfUsedPairs(r.usedPairs)
    /\ callPartners' = pastPartners
    /\ round' = round + 1
    /\ UNCHANGED <<players, numCourts, applyVars, leaderboard, searchVars, clientVars>>

\* The first round drawn for the inputs at hand.
GenerateRound ==
    /\ result.kind = "none"
    /\ Generate

\* A further round of the same tournament, with the accumulated history.
GenerateNextRound ==
    /\ result.kind = "ok"
    /\ round < MaxRounds
    /\ Generate

\* A single call on any roster, court count and history.
Init ==
    /\ \E n \in 0..MaxPlayers, profile \in StatProfiles :
          /\ players = Roster(n, profile)
          /\ pastPartners \in Histories
    /\ numCourts \in 1..MaxCourts
    /\ callPartners = {}
    /\ result = NoResult
    /\ round = 0
    /\ currentMatches = <<>> /\ scoresByCourt = <<>> /\ applied = NoApplied
    /\ leaderboard = NoLeaderboard
    /\ SearchIdle /\ ClientIdle

Next == GenerateRound

Spec == Init /\ [][Next]_vars

\* Consecutive rounds on a fixed roster of 4*numCourts players, starting
\* from an empty history.
StressCourts == {1}

InitStress ==
    /\ numCourts \in StressCourts
    /\ \E profile \in StatProfiles : players = Roster(4 * numCourts, profile)
    /\ pastPartners = {}
    /\ callPartners = {}
    /\ result = NoResult
    /\ round = 0
    /\ currentMatches = <<>> /\ scoresByCourt = <<>> /\ applied = NoApplied
    /\ leaderboard = NoLeaderboard
    /\ SearchIdle /\ ClientIdle

NextStress == GenerateRound \/ GenerateNextRound

SpecStress == InitStress /\ [][NextStress]_vars

\* A single call on a roster with one pair more than the courts take.
InitOversize ==
    /\ numCourts \in StressCourts
    /\ \E profile \in StatProfiles : players = Roster(4 * numCourts + 2, profile)
    /\ pastPartners \in Histories
    /\ callPartners = {}
    /\ result = NoResult
    /\ round = 0
    /\ currentMatches = <<>> /\ scoresByCourt = <<>> /\ applied = NoApplied
    /\ leaderboard = NoLeaderboard
    /\ SearchIdle /\ ClientIdle

SpecOversize == InitOversize /\ [][Next]_vars

\* Math.floor(Math.random() * (i + 1)) when Math.random() returns 0 ("low"),
\* 0.5 ("mid") or the largest value below 1 ("high").
DrawIndex(draw, i) ==
    IF draw = "low" THEN 0 ELSE IF draw = "mid" THEN (i + 1) \div 2 ELSE i

Draws == {"low", "mid", "high"}

RECURSIVE FisherYatesWith(_, _, _)
\* The shuffle loop from 0-based index i down to 1 when every draw of
\* Math.random() in it returns the same value.
FisherYatesWith(s, i, draw) ==
    IF i <= 0 THEN s
    ELSE FisherYatesWith(Swap(s, i + 1, DrawIndex(draw, i) + 1), i - 1, draw)

\* Every result of generateRoundMatchesAvoidingPartners whose shuffle draws
\* all return the same value; the candidate orders and the cost noise are
\* drawn freely.
generateRoundWithDraws(ps, nc, past) ==
    IF Len(ps) < nc * 4
    THEN {Threw(NotEnoughPlayers)}
    ELSE UNION {roundFromShuffle(FisherYatesWith(ps, Len(ps) - 1, draw), nc, past)
                : draw \in Draws}

\* One call for a round on several courts.
GenerateOnCourts ==
    /\ result.kind = "none"
    /\ \E r \in generateRoundWithDraws(players, numCourts, pastPartners) :
          /\ result' = r
          /\ pastPartners' = pastPartners \cup keysOfUsedPairs(r.usedPairs)
    /\ callPartners' = pastPartners
    /\ round' = round + 1
    /\ UNCHANGED <<players, numCourts, applyVars, leaderboard, searchVars, clientVars>>

\* Rounds on two courts, with the roster that fills them and with one player
\* more than that.
CourtsPlayed == {2}

\* Histories for those rounds: none, two pairs seen, and player 1 having
\* partnered everybody.
CourtHistories ==
    { {}, {"1-2", "3-4"}, {KeyOfIds(1, b) : b \in 2..9} }

InitCourts ==
    /\ numCourts \in CourtsPlayed
    /\ \E profile \in StatProfiles, extra \in {0, 1} :
          players = Roster(4 * numCourts + extra, profile)
    /\ pastPartners \in CourtHistories
    /\ callPartners = {}
    /\ result = NoResult
    /\ round = 0
    /\ currentMatches = <<>> /\ scoresByCourt = <<>> /\ applied = NoApplied
    /\ leaderboard = NoLeaderboard
    /\ SearchIdle /\ ClientIdle

NextCourts == GenerateOnCourts

SpecCourts == InitCourts /\ [][NextCourts]_vars

\* A further round of the same tournament with the same draws, the keys of
\* the rounds before merged into the history.
GenerateNextOnCourts ==
    /\ result.kind = "ok"
    /\ round < MaxRounds
    /\ \E r \in generateRoundWithDraws(players, numCourts, pastPartners) :
          /\ result' = r
          /\ pastPartners' = pastPartners \cup keysOfUsedPairs(r.usedPairs)
    /\ callPartners' = pastPartners
    /\ round' = round + 1
    /\ UNCHANGED <<players, numCourts, applyVars, leaderboard, searchVars, clientVars>>

\* The keys of the pairs with one player in A and the other in B.
KeysAcross(A, B) == {KeyOfIds(a, b) : a \in A, b \in B}

\* Where a tournament on one court is joined, with a roster of four or of six
\* players: at its start; after two rounds of four players; after two rounds
\* of six players; and, two rounds before the last, after three rounds of
\* six players in which nobody of 1..3 partnered anybody of 1..3.
TournamentStarts ==
    { [n |-> 4, past |-> {}, round |-> 0],
      [n |-> 4, past |-> {"1-2", "3-4", "1-3", "2-4"}, round |-> 0],
      [n |-> 6, past |-> {"1-4", "2-5", "3-6", "1-5", "2-6", "3-4"}, round |-> MaxRounds - 2],
      [n |-> 6, past |-> KeysAcross(1..3, 4..6), round |-> MaxRounds - 2] }

InitTournament ==
    /\ numCourts \in StressCourts
    /\ \E start \in TournamentStarts :
          /\ players = Roster(start.n, "fresh")
          /\ pastPartners = start.past
          /\ round = start.round
    /\ callPartners = {}
    /\ result = NoResult
    /\ currentMatches = <<>> /\ scoresByCourt = <<>> /\ applied = NoApplied
    /\ leaderboard = NoLeaderboard
    /\ SearchIdle /\ ClientIdle

NextTournament == GenerateOnCourts \/ GenerateNextOnCourts

SpecTournament == InitTournament /\ [][NextTournament]_vars

\* ------------------------------------------------------- buildPairs: inputs
\* One call of buildPairs as generateRound makes it: on a shuffled list with
\* nobody used and no pair collected, strict or relaxed.
BuildPairs ==
    /\ built.kind = "none"
    /\ \E allowRepeat \in BOOLEAN :
          \E o \in buildPairs(players, SeqOf([i \in 1..Len(players) |-> FALSE], Len(players)),
                               <<>>, pastPartners, allowRepeat) :
             built' = [kind |-> "done", shuffled |-> players, past |-> pastPartners,
                       allowRepeat |-> allowRepeat,
                       ok |-> o.ok, used |-> o.used, current |-> o.current]
    /\ UNCHANGED <<players, roundVars, applyVars, leaderboard, optimized, clientVars>>

\* Any roster of up to MaxPlayers players in any shuffled order, any history.
InitPairs ==
    /\ \E n \in 0..MaxPlayers, profile \in StatProfiles :
          players \in Shuffles(Roster(n, profile))
    /\ pastPartners \in Histories
    /\ numCourts = 0
    /\ callPartners = {}
    /\ result = NoResult
    /\ round = 0
    /\ currentMatches = <<>> /\ scoresByCourt = <<>> /\ applied = NoApplied
    /\ leaderboard = NoLeaderboard
    /\ SearchIdle /\ ClientIdle

NextPairs == BuildPairs

SpecPairs == InitPairs /\ [][NextPairs]_vars

\* --------------------------------------------------- optimizeCourts: inputs
\* The k-th pair of a list: players 2k-1 and 2k with wins summing to tw, the
\* first of them on a losing streak when streak is set.
PairOf(k, tw, streak) ==
    [p1 |-> Player(2 * k - 1, tw - (tw \div 2), 0, IF streak THEN STREAK_THRESHOLD ELSE 0),
     p2 |-> Player(2 * k, tw \div 2, 0, 0)]

RECURSIVE PairLists(_, _)
\* The lists of n pairs in which the pairs numbered in streakers have a
\* player on a losing streak.
PairLists(n, streakers) ==
    IF n = 0 THEN {<<>>}
    ELSE {Append(s, PairOf(n, tw, n \in streakers))
            : s \in PairLists(n - 1, streakers), tw \in 0..MaxTeamWins}

\* Who is on a losing streak in a list of n pairs: nobody, somebody of the
\* first pair, somebody of the last pair, or somebody of every pair.
StreakerSets(n) == {{}, {1}, {n}, 1..n}

\* The numCourts values optimizeCourts is called with, and the lengths of
\* the lists: fewer pairs than 2*numCourts, exactly that many, and (for one
\* court) one pair more.
OptimizeCourtCounts == {1, 2}
PairCounts(nc) == 0..(IF nc = 1 THEN 3 ELSE 2 * nc)

\* One call of optimizeCourts.
OptimizeCourts ==
    /\ optimized.kind = "none"
    /\ \E o \in optimizeCourts(optimized.pairs, optimized.nc) :
          optimized' = [kind |-> "done", pairs |-> optimized.pairs, nc |-> optimized.nc,
                        remaining |-> o.remaining, chosen |-> o.chosen, found |-> o.found,
                        bestCost |-> o.bestCost, best |-> o.best, maxNoise |-> o.maxNoise]
    /\ UNCHANGED <<players, roundVars, applyVars, leaderboard, built, clientVars>>

InitOptimize ==
    /\ \E nc \in OptimizeCourtCounts :
          \E n \in PairCounts(nc) :
             \E prs \in UNION {PairLists(n, streakers) : streakers \in StreakerSets(n)} :
                optimized = [NoOptimized EXCEPT !.pairs = prs, !.nc = nc]
    /\ built = NoBuilt
    /\ players = <<>>
    /\ numCourts = 0
    /\ pastPartners = {} /\ callPartners = {}
    /\ result = NoResult
    /\ round = 0
    /\ currentMatches = <<>> /\ scoresByCourt = <<>> /\ applied = NoApplied
    /\ leaderboard = NoLeaderboard
    /\ ClientIdle

NextOptimize == OptimizeCourts

SpecOptimize == InitOptimize /\ [][NextOptimize]_vars

\* --------------------------------------------------- applyResults: inputs
\* The scores a court can be given.
ScoreValues == {Num(v) : v \in (-1)..MaxScore} \cup {NaN, NegInfinity}

ScoreEntries == [side1 : ScoreValues, side2 : ScoreValues]

\* scoresByCourt objects: an entry for none, one or both of courts 1 and 2.
ScoreMaps == UNION {[D -> ScoreEntries] : D \in SUBSET {1, 2}}

\* The roster without the player of the given id (removePlayer).
WithoutId(ps, id) == SelectSeq(ps, LAMBDA q : q.id # id)

MatchOf(court, ps, a, b, c, d) ==
    [courtNumber |-> court, side1 |-> <<ps[a], ps[b]>>, side2 |-> <<ps[c], ps[d]>>]

\* The rounds handed to applyResults: one court, two courts, and two courts
\* listed in descending court order, drawn from the full roster ps.
MatchLists(ps) ==
    { <<MatchOf(1, ps, 1, 2, 3, 4)>>,
      <<MatchOf(1, ps, 1, 2, 3, 4), MatchOf(2, ps, 5, 6, 7, 8)>>,
      <<MatchOf(2, ps, 5, 6, 7, 8), MatchOf(1, ps, 1, 2, 3, 4)>> }

\* One call of applyResults; players becomes the caller's collection as the
\* call leaves it.
ApplyResults ==
    /\ applied.kind = "none"
    /\ applied' = applyResults(players, currentMatches, scoresByCourt)
    /\ players' = applied'.players
    /\ UNCHANGED <<roundVars, currentMatches, scoresByCourt, leaderboard, searchVars, clientVars>>

\* Any of the rounds above, scored in any way, applied to the full roster of
\* eight or to the roster after player 4 was removed.
InitApply ==
    /\ \E profile \in StatProfiles :
          /\ players \in {Roster(8, profile), WithoutId(Roster(8, profile), 4)}
          /\ currentMatches \in MatchLists(Roster(8, profile))
    /\ scoresByCourt \in ScoreMaps
    /\ applied = NoApplied
    /\ numCourts = Len(currentMatches)
    /\ pastPartners = {} /\ callPartners = {}
    /\ result = NoResult
    /\ round = 0
    /\ leaderboard = NoLeaderboard
    /\ SearchIdle /\ ClientIdle

NextApply == ApplyResults

SpecApply == InitApply /\ [][NextApply]_vars

\* ------------------------------------------------- sortLeaderboard: inputs
SortPlayers(id) ==
    {[id |-> id, name |-> n, wins |-> w, pointDiff |-> d, lossStreak |-> 0]
       : n \in SortNames, w \in {0, 1}, d \in {-1, 1}}

RECURSIVE SortInputs(_)
\* The lists of n players with ids 1..n.
SortInputs(n) ==
    IF n = 0 THEN {<<>>}
    ELSE {Append(s, q) : s \in SortInputs(n - 1), q \in SortPlayers(n)}

\* One call of sortLeaderboard; players becomes the caller's list as the
\* call leaves it.
SortLeaderboard ==
    /\ leaderboard.kind = "none"
    /\ leaderboard' = sortLeaderboard(players)
    /\ players' = leaderboard'.players
    /\ UNCHANGED <<roundVars, applyVars, searchVars, clientVars>>

InitSort ==
    /\ \E n \in 0..MaxSortLen : players \in SortInputs(n)
    /\ leaderboard = NoLeaderboard
    /\ currentMatches = <<>> /\ scoresByCourt = <<>> /\ applied = NoApplied
    /\ numCourts = 0
    /\ pastPartners = {} /\ callPartners = {}
    /\ result = NoResult
    /\ round = 0
    /\ SearchIdle /\ ClientIdle

NextSort == SortLeaderboard

SpecSort == InitSort /\ [][NextSort]_vars

\* ------------------------------------------------------------------ client
\* TournamentProvider, the tournament route and the handlers of the pages.
StateFields ==
    {"players", "roundNumber", "pastPartners", "nextId", "currentMatches", "currentWinners"}

\* The six fields of a state object.
StateOf(r) == [f \in StateFields |-> r[f]]

\* The names typed into the form: a name as stored, or in lower case.
LowerNameOf(id) == "p" \o ToString(id)

CleanNames == {NameOf(i) : i \in 1..MaxId} \cup {LowerNameOf(i) : i \in 1..MaxId}

Padded(t) == " " \o t \o " "

\* String.prototype.trim on the texts typed in.
trim(raw) ==
    IF raw \in {"", " "} THEN ""
    ELSE IF \E t \in CleanNames : raw = Padded(t)
    THEN CHOOSE t \in CleanNames : raw = Padded(t)
    ELSE raw

\* String.prototype.toLowerCase on the trimmed names.
toLowerCase(t) ==
    IF \E i \in 1..MaxId : t = NameOf(i)
    THEN LowerNameOf(CHOOSE i \in 1..MaxId : t = NameOf(i))
    ELSE t

\* What is typed into the form in state c: nothing, a blank, the next fresh
\* name with and without blanks around it, and the first player's name in
\* lower case.
TypedNames(c) ==
    {"", " ", NameOf(c.nextId), Padded(NameOf(c.nextId))}
        \cup (IF c.players = <<>> THEN {} ELSE {LowerNameOf(c.players[1].id)})

\* addPlayer: what it returns and the state it leaves.
addPlayer(c, name) ==
    LET trimmed == trim(name)
        exists == \E p \in Range(c.players) :
                     toLowerCase(trim(p.name)) = toLowerCase(trimmed)
    IN  IF trimmed = "" \/ exists THEN [added |-> FALSE, state |-> c]
        ELSE [added |-> TRUE,
              state |-> [c EXCEPT
                  !.players = Append(@, [id |-> c.nextId, name |-> trimmed, score |-> 0,
                                         wins |-> 0, pointDiff |-> 0, lossStreak |-> 0]),
                  !.nextId = @ + 1]]

\* removePlayer
removePlayer(c, id) == [c EXCEPT !.players = WithoutId(@, id)]

RECURSIVE setAddAll(_, _, _)
\* keys.forEach(k => set.add(k)) from the k-th key on; a Set keeps the order
\* of first insertion.
setAddAll(arr, keys, k) ==
    IF k > Len(keys) THEN arr
    ELSE setAddAll(IF keys[k] \in Range(arr) THEN arr ELSE Append(arr, keys[k]), keys, k + 1)

\* Array.from(new Set([...prev, ...keys]))
arrayFromSet(prev, keys) == setAddAll(setAddAll(<<>>, prev, 1), keys, 1)

\* addPartnerKeys
addPartnerKeys(c, keys) == [c EXCEPT !.pastPartners = arrayFromSet(@, keys)]

\* resetTournament
resetTournament(c) == InitialClient

\* data.players.reduce((m, p) => (p.id > m ? p.id : m), 0)
maxIdOf(ps) == IF ps = <<>> THEN 0 ELSE Max({p.id : p \in Range(ps)} \cup {0})

\* A JSON text, as JSON.stringify writes it and JSON.parse, req.json() and
\* res.json() read it: a value tagged with its JSON type. Every number held
\* by the client is finite and is written as it is.
JNumber(n) == [json |-> "number", v |-> n]
JString(s) == [json |-> "string", v |-> s]
JArray(items) == [json |-> "array", items |-> items]
JObject(members) == [json |-> "object", members |-> members]

\* JSON.stringify of a player: name is a string, the other fields are numbers.
jsonOfPlayer(p) ==
    JObject([f \in DOMAIN p |-> IF f = "name" THEN JString(p[f]) ELSE JNumber(p[f])])

jsonOfPlayers(ps) == JArray(SeqOf([i \in 1..Len(ps) |-> jsonOfPlayer(ps[i])], Len(ps)))

\* JSON.stringify of a match.
jsonOfMatch(m) ==
    JObject([courtNumber |-> JNumber(m.courtNumber),
             side1 |-> jsonOfPlayers(m.side1),
             side2 |-> jsonOfPlayers(m.side2)])

\* JSON.stringify of a payload; updatedAt is written by every PUT and read by
\* nothing below, so the texts leave it out.
stringify(payload) ==
    JObject([players |-> jsonOfPlayers(payload.players),
             roundNumber |-> JNumber(payload.roundNumber),
             pastPartners |->
                 JArray(SeqOf([i \in 1..Len(payload.pastPartners) |->
                                  JString(payload.pastPartners[i])],
                              Len(payload.pastPartners))),
             nextId |-> JNumber(payload.nextId),
             currentMatches |->
                 JArray(SeqOf([i \in 1..Len(payload.currentMatches) |->
                                  jsonOfMatch(payload.currentMatches[i])],
                              Len(payload.currentMatches))),
             currentWinners |->
                 JObject([c \in DOMAIN payload.currentWinners |->
                             JString(payload.currentWinners[c])])])

RECURSIVE parse(_)
\* JSON.parse: the value a text stands for.
parse(j) ==
    IF j.json \in {"number", "string"} THEN j.v
    ELSE IF j.json = "array"
    THEN SeqOf([i \in 1..Len(j.items) |-> parse(j.items[i])], Len(j.items))
    ELSE [f \in DOMAIN j.members |-> parse(j.members[f])]

\* Array.isArray(data.f), typeof data.f === "number" and
\* data.f && typeof data.f === "object" on a parsed object.
isArrayField(j, f) == f \in DOMAIN j.members /\ j.members[f].json = "array"
isNumberField(j, f) == f \in DOMAIN j.members /\ j.members[f].json = "number"
isObjectField(j, f) ==
    f \in DOMAIN j.members /\ j.members[f].json \in {"array", "object"}

\* Mutant of hydrateFromState: nextId is always the id after the largest.
hydrateFromStateNextAfterMax(c, data) ==
    LET hasPlayers == isArrayField(data, "players")
        hasNextId == isNumberField(data, "nextId")
        dataPlayers == parse(data.members.players)
    IN  [players |-> IF hasPlayers THEN dataPlayers ELSE c.players,
         nextId |-> IF hasPlayers THEN maxIdOf(dataPlayers) + 1
                    ELSE IF hasNextId THEN parse(data.members.nextId) ELSE c.nextId,
         roundNumber |-> IF isNumberField(data, "roundNumber")
                         THEN parse(data.members.roundNumber) ELSE c.roundNumber,
         pastPartners |-> IF isArrayField(data, "pastPartners")
                          THEN parse(data.members.pastPartners) ELSE c.pastPartners,
         currentMatches |-> IF isArrayField(data, "currentMatches")
                            THEN parse(data.members.currentMatches) ELSE c.currentMatches,
         currentWinners |-> IF isObjectField(data, "currentWinners")
                            THEN parse(data.members.currentWinners) ELSE c.currentWinners]

\* hydrateFromState on the object read from the server: each field present
\* with the right type replaces the client's; nextId is raised above the
\* largest id of the players loaded.
hydrateFromState(c, data) ==
    LET hasPlayers == isArrayField(data, "players")
        hasNextId == isNumberField(data, "nextId")
        dataPlayers == parse(data.members.players)
        maxId == maxIdOf(dataPlayers)
        safeNextId == IF hasNextId /\ parse(data.members.nextId) > maxId
                      THEN parse(data.members.nextId) ELSE maxId + 1
    IN  [players |-> IF hasPlayers THEN dataPlayers ELSE c.players,
         nextId |-> IF hasPlayers THEN safeNextId
                    ELSE IF hasNextId THEN parse(data.members.nextId) ELSE c.nextId,
         roundNumber |-> IF isNumberField(data, "roundNumber")
                         THEN parse(data.members.roundNumber) ELSE c.roundNumber,
         pastPartners |-> IF isArrayField(data, "pastPartners")
                          THEN parse(data.members.pastPartners) ELSE c.pastPartners,
         currentMatches |-> IF isArrayField(data, "currentMatches")
                            THEN parse(data.members.currentMatches) ELSE c.currentMatches,
         currentWinners |-> IF isObjectField(data, "currentWinners")
                            THEN parse(data.members.currentWinners) ELSE c.currentWinners]

\* The payload of saveRemote and of putSnapshot: the six fields of a state.
payloadOf(c) == StateOf(c)

\* The object the PUT route stores for a request body: a field that is
\* missing or of the wrong type is replaced by its default.
safe(body) ==
    JObject(
        [players |-> IF isArrayField(body, "players") THEN body.members.players
                     ELSE JArray(<<>>),
         roundNumber |-> IF isNumberField(body, "roundNumber") THEN body.members.roundNumber
                         ELSE JNumber(0),
         pastPartners |-> IF isArrayField(body, "pastPartners")
                          THEN body.members.pastPartners ELSE JArray(<<>>),
         nextId |-> IF isNumberField(body, "nextId") THEN body.members.nextId
                    ELSE JNumber(1),
         currentMatches |-> IF isArrayField(body, "currentMatches")
                            THEN body.members.currentMatches ELSE JArray(<<>>),
         currentWinners |-> IF isObjectField(body, "currentWinners")
                            THEN body.members.currentWinners ELSE JObject(<<>>)])

\* PUT of a payload: what kv holds afterwards.
put(payload) == safe(stringify(payload))

\* Whether a request reaches the server and is answered with res.ok.
Responses == {TRUE, FALSE}

\* addPlayer from the form of the players page.
AddPlayer ==
    /\ Len(client.players) < MaxPlayers
    /\ client.nextId <= MaxId
    /\ \E name \in TypedNames(client) :
          /\ client' = addPlayer(client, name).state
          /\ lastOp' = Op("addPlayer", addPlayer(client, name).added)
    /\ UNCHANGED <<remote, removedIds>>
    /\ UNCHANGED <<players, roundVars, applyVars, leaderboard, searchVars, deviceVars>>

\* The players whose remove button is pressed: the first and the last of the
\* roster.
Removable(ps) == IF ps = <<>> THEN {} ELSE {ps[1].id, ps[Len(ps)].id}

\* removePlayer from the roster of the players page.
RemovePlayer ==
    /\ \E id \in Removable(client.players) :
          /\ client' = removePlayer(client, id)
          /\ removedIds' = removedIds \cup {id}
    /\ lastOp' = Op("removePlayer", TRUE)
    /\ UNCHANGED remote
    /\ UNCHANGED <<players, roundVars, applyVars, leaderboard, searchVars, deviceVars>>

\* saveRemote: PUT of the whole state; the client's state stays as it is.
SaveRemote ==
    /\ \E ok \in Responses :
          /\ remote' = IF ok THEN put(payloadOf(client)) ELSE remote
          /\ lastOp' = Op("saveRemote", ok)
    /\ UNCHANGED <<client, removedIds>>
    /\ UNCHANGED <<players, roundVars, applyVars, leaderboard, searchVars, deviceVars>>

\* loadRemote: GET, then hydrateFromState unless the request failed or
\* nothing is stored.
loadRemote(c, stored) ==
    {[client |-> IF ok /\ stored # NoRecord THEN hydrateFromState(c, stored) ELSE c,
      remote |-> stored,
      op |-> Op("loadRemote", ok)] : ok \in Responses}

\* The page calls loadRemote.
LoadRemote ==
    /\ \E o \in loadRemote(client, remote) :
          client' = o.client /\ lastOp' = o.op
    /\ UNCHANGED <<remote, removedIds>>
    /\ UNCHANGED <<players, roundVars, applyVars, leaderboard, searchVars, deviceVars>>

\* The reset button of the players page: resetTournament, then resetRemote.
ResetTournament ==
    /\ client' = resetTournament(client)
    /\ removedIds' = {}
    /\ \E ok \in Responses :
          /\ remote' = IF ok THEN put(payloadOf(InitialClient)) ELSE remote
          /\ lastOp' = Op("resetTournament", ok)
    /\ UNCHANGED <<players, roundVars, applyVars, leaderboard, searchVars, deviceVars>>

\* The numbers typed into a score field of the matches page (type="number").
TypedScores == (-1)..1

\* Number(raw) on the text of a score field: the empty text, or the digits
\* of a number typed.
NumberOf(raw) ==
    IF raw = "" THEN Num(0) ELSE Num(CHOOSE v \in TypedScores : ToString(v) = raw)

RawScore(side1, side2) == [side1 |-> side1, side2 |-> side2]

\* What the two fields of a court hold when the save button is pressed: a
\* win of either side, a tie, a negative score, or a field left empty.
RawScoreEntries ==
    {RawScore("1", "0"), RawScore("0", "1"), RawScore("1", "1"),
     RawScore("-1", "0"), RawScore("1", ""), RawScore("", "")}

\* The scoresByCourt objects of the page for the matches ms: two texts for
\* some of the courts, nothing for the others.
RawScoreMaps(ms) ==
    UNION {[D -> RawScoreEntries] : D \in SUBSET {m.courtNumber : m \in Range(ms)}}

\* allScoresEntered
allScoresEntered(ms, raws) ==
    /\ ms # <<>>
    /\ \A m \in Range(ms) :
          /\ m.courtNumber \in DOMAIN raws
          /\ raws[m.courtNumber].side1 # "" /\ raws[m.courtNumber].side2 # ""
          /\ LET s1 == NumberOf(raws[m.courtNumber].side1)
                 s2 == NumberOf(raws[m.courtNumber].side2)
             IN  /\ isFinite(s1) /\ isFinite(s2)
                 /\ ~isNegative(s1) /\ ~isNegative(s2)
                 /\ ~strictEquals(s1, s2)

\* numericScores of handleSaveResults.
numericScores(raws) ==
    [c \in DOMAIN raws |->
        [side1 |-> NumberOf(raws[c].side1), side2 |-> NumberOf(raws[c].side2)]]

\* result.usedPairs.map(pair => id1 < id2 ? `${id1}-${id2}` : `${id2}-${id1}`)
keysOf(usedPairs) ==
    SeqOf([i \in 1..Len(usedPairs) |->
              IF usedPairs[i].p1.id < usedPairs[i].p2.id
                 THEN ToString(usedPairs[i].p1.id) \o "-" \o ToString(usedPairs[i].p2.id)
                 ELSE ToString(usedPairs[i].p2.id) \o "-" \o ToString(usedPairs[i].p1.id)],
          Len(usedPairs))

\* The state handleGenerateNextRound sets for the result r, which is also
\* the snapshot it sends.
drawnState(c, r) ==
    LET keys == keysOf(r.usedPairs)
    IN  [(IF Len(keys) > 0 THEN addPartnerKeys(c, keys) ELSE c) EXCEPT
            !.roundNumber = @ + 1,
            !.currentMatches = r.matches,
            !.currentWinners = <<>>]

\* Mutant of hasActiveRound: no round ever counts as active.
hasActiveRoundNever(c) == FALSE

\* hasActiveRound of the matches page.
hasActiveRound(c) == Len(c.currentMatches) > 0

\* handleGenerateNextRound of the matches page, the PUT of the snapshot
\* included. With a round active it only shows a message. When the draw
\* throws or the PUT fails, the catch block clears the matches.
handleGenerateNextRound(c, stored) ==
    IF hasActiveRound(c)
    THEN {[client |-> c, remote |-> stored, op |-> Op("handleGenerateNextRound", FALSE)]}
    ELSE {[client |-> IF r.kind # "ok" THEN c
                      ELSE IF ok THEN drawnState(c, r)
                      ELSE [drawnState(c, r) EXCEPT !.currentMatches = <<>>],
           remote |-> IF r.kind = "ok" /\ ok THEN put(payloadOf(drawnState(c, r))) ELSE stored,
           op |-> Op("handleGenerateNextRound", r.kind = "ok" /\ ok)] :
             r \in generateRoundWithDraws(c.players, ClientCourts, Range(c.pastPartners)),
             ok \in Responses}

\* The button of the matches page, while rounds are left to draw.
HandleGenerateNextRound ==
    /\ client.currentMatches # <<>> \/ client.roundNumber < ClientRounds
    /\ \E o \in handleGenerateNextRound(client, remote) :
          client' = o.client /\ remote' = o.remote /\ lastOp' = o.op
    /\ UNCHANGED removedIds
    /\ UNCHANGED <<players, roundVars, applyVars, leaderboard, searchVars, deviceVars>>

\* Mutant of savedState: the matches of the round are kept.
savedStateKeepsMatches(c, updated) ==
    [c EXCEPT !.players = updated, !.currentWinners = <<>>]

\* The state handleSaveResults sets, which is also the snapshot it sends.
savedState(c, updated) ==
    [c EXCEPT !.players = updated, !.currentMatches = <<>>, !.currentWinners = <<>>]

\* handleSaveResults of the matches page for the scores typed in, the PUT of
\* the snapshot included. Without an active round it returns; with a score
\* missing or invalid it only shows a message.
handleSaveResults(c, stored) ==
    {LET res == applyResults(c.players, c.currentMatches, numericScores(raws))
         done == /\ hasActiveRound(c)
                 /\ allScoresEntered(c.currentMatches, raws)
                 /\ res.kind = "ok"
     IN  [client |-> IF done THEN savedState(c, res.updated) ELSE c,
          remote |-> IF done /\ ok THEN put(payloadOf(savedState(c, res.updated))) ELSE stored,
          op |-> OpWith("handleSaveResults", done /\ ok, raws)] :
       raws \in RawScoreMaps(c.currentMatches), ok \in Responses}

\* The save button of the matches page.
HandleSaveResults ==
    /\ \E o \in handleSaveResults(client, remote) :
          client' = o.client /\ remote' = o.remote /\ lastOp' = o.op
    /\ UNCHANGED removedIds
    /\ UNCHANGED <<players, roundVars, applyVars, leaderboard, searchVars, deviceVars>>

\* The provider as constructed, with nothing stored on the server.
InitClient ==
    /\ client = InitialClient
    /\ remote = NoRecord
    /\ removedIds = {}
    /\ lastOp = NoOp
    /\ players = <<>>
    /\ numCourts = 0
    /\ pastPartners = {} /\ callPartners = {}
    /\ result = NoResult
    /\ round = 0
    /\ currentMatches = <<>> /\ scoresByCourt = <<>> /\ applied = NoApplied
    /\ leaderboard = NoLeaderboard
    /\ SearchIdle /\ DevicesIdle

NextClient ==
    \/ AddPlayer
    \/ RemovePlayer
    \/ HandleGenerateNextRound
    \/ HandleSaveResults
    \/ SaveRemote
    \/ LoadRemote
    \/ ResetTournament

SpecClient == InitClient /\ [][NextClient]_vars

\* ---------------------------------------------------------- leaderboard poll
\* The polling effect of LeaderboardClient. timer is the handle held by the
\* variable of that name (0 for null), pending the timeouts set and neither
\* fired nor cleared, requests the number of loadRemote calls under way.
\* count is incremented and never read, so it is left out.
\* setTimeout hands out a handle that no live timer and no variable holds.
freshHandle(p) ==
    Min({h \in 1..(Cardinality(p.pending) + 2) :
            h # p.timer /\ \A tm \in p.pending : tm.handle # h})

\* timer = setTimeout(tick, ms)
setTimer(p, ms) ==
    [p EXCEPT !.pending = @ \cup {[handle |-> freshHandle(p), ms |-> ms]},
              !.timer = freshHandle(p)]

\* clear
clear(p) ==
    IF p.timer # 0
    THEN [p EXCEPT !.pending = {tm \in @ : tm.handle # p.timer}, !.timer = 0]
    ELSE p

\* Mutant of scheduleNext: the timer is cleared and none is set.
scheduleNextNever(p) == clear(p)

\* scheduleNext
scheduleNext(p) ==
    IF clear(p).stopped THEN clear(p) ELSE setTimer(clear(p), POLL_MS)

\* Mutant of tick: a request is started also while one is in flight.
tickOverlapping(p) ==
    IF p.stopped THEN p
    ELSE IF ~p.visible THEN clear(p)
    ELSE [p EXCEPT !.inFlight = TRUE, !.requests = @ + 1]

\* tick up to the await: nothing when stopped, the timer cleared when the
\* document is hidden, a retry timer when a request is in flight, else the
\* start of a loadRemote request.
tick(p) ==
    IF p.stopped THEN p
    ELSE IF ~p.visible THEN clear(p)
    ELSE IF p.inFlight THEN setTimer(p, RETRY_MS)
    ELSE [p EXCEPT !.inFlight = TRUE, !.requests = @ + 1]

\* tick after the await: the finally block.
tickFinally(p) == scheduleNext([p EXCEPT !.inFlight = FALSE, !.requests = @ - 1])

\* onVisibility
onVisibility(p) == IF p.visible THEN tick(clear(p)) ELSE clear(p)

\* Mutant of cleanup: the timer is left as it is.
cleanupKeepsTimer(p) == [p EXCEPT !.stopped = TRUE, !.listening = FALSE]

\* The cleanup of the effect.
cleanup(p) == [clear([p EXCEPT !.stopped = TRUE]) EXCEPT !.listening = FALSE]

\* The effect body: the variables, the first tick, the listener.
mountEffect(visible) ==
    [tick([NoPoll EXCEPT !.visible = visible]) EXCEPT !.listening = TRUE, !.event = "mount"]

RECURSIVE registered(_)
\* The organiser's state after k players were added.
registered(k) ==
    IF k = 0 THEN InitialClient
    ELSE addPlayer(registered(k - 1), NameOf(registered(k - 1).nextId)).state

\* The snapshots the organiser's device writes while the leaderboard is shown.
OrganiserStates == {registered(k) : k \in 0..2}

\* A pending timer fires: tick runs.
TimerFires ==
    /\ \E tm \in poll.pending :
          poll' = [tick([poll EXCEPT !.pending = @ \ {tm}]) EXCEPT !.event = "timer"]
    /\ UNCHANGED <<client, remote, removedIds, lastOp, other>>
    /\ UNCHANGED <<players, roundVars, applyVars, leaderboard, searchVars>>

\* The document changes between visible and hidden; the listener runs
\* onVisibility while it is attached.
VisibilityChange ==
    /\ LET flipped == [poll EXCEPT !.visible = ~@]
       IN  poll' = [(IF poll.listening THEN onVisibility(flipped) ELSE flipped)
                       EXCEPT !.event = IF flipped.visible THEN "visible" ELSE "hidden"]
    /\ UNCHANGED <<client, remote, removedIds, lastOp, other>>
    /\ UNCHANGED <<players, roundVars, applyVars, leaderboard, searchVars>>

\* The loadRemote call of a tick settles: it hydrated the client, returned
\* without data, or threw; the finally block runs.
RequestCompletes ==
    /\ poll.requests > 0
    /\ \E outcome \in {"loaded", "failed"} :
          /\ poll' = [tickFinally(poll) EXCEPT !.event = outcome]
          /\ client' = IF outcome = "loaded" /\ remote # NoRecord
                       THEN hydrateFromState(client, remote) ELSE client
    /\ UNCHANGED <<remote, removedIds, lastOp, other>>
    /\ UNCHANGED <<players, roundVars, applyVars, leaderboard, searchVars>>

\* The leaderboard page is unmounted.
Unmount ==
    /\ ~poll.stopped
    /\ poll' = [cleanup(poll) EXCEPT !.event = "unmount"]
    /\ UNCHANGED <<client, remote, removedIds, lastOp, other>>
    /\ UNCHANGED <<players, roundVars, applyVars, leaderboard, searchVars>>

\* The organiser's device saves a snapshot.
OrganiserSaves ==
    /\ \E s \in OrganiserStates :
          /\ put(payloadOf(s)) # remote
          /\ remote' = put(payloadOf(s))
    /\ UNCHANGED <<client, removedIds, lastOp, other, poll>>
    /\ UNCHANGED <<players, roundVars, applyVars, leaderboard, searchVars>>

\* The leaderboard page right after its effect ran, the document visible or
\* hidden, with nothing stored yet.
InitPoll ==
    /\ \E visible \in BOOLEAN : poll = mountEffect(visible)
    /\ client = InitialClient /\ other = InitialClient
    /\ remote = NoRecord
    /\ removedIds = {}
    /\ lastOp = NoOp
    /\ players = <<>>
    /\ numCourts = 0
    /\ pastPartners = {} /\ callPartners = {}
    /\ result = NoResult
    /\ round = 0
    /\ currentMatches = <<>> /\ scoresByCourt = <<>> /\ applied = NoApplied
    /\ leaderboard = NoLeaderboard
    /\ SearchIdle

NextPoll ==
    \/ TimerFires
    \/ VisibilityChange
    \/ RequestCompletes
    \/ Unmount
    \/ OrganiserSaves

SpecPoll == InitPoll /\ [][NextPoll]_vars

\* Timers fire and every request settles.
SpecPollLive ==
    InitPoll /\ [][NextPoll]_vars /\ WF_vars(TimerFires) /\ WF_vars(RequestCompletes)

\* ------------------------------------------------- two devices, one tournament
\* Two browsers on the same tournament id: each holds its own provider state
\* and both talk to the one stored record.
Devices == {"client", "other"}

DeviceState(d) == IF d = "client" THEN client ELSE other

\* Players registered before the second device joins.
DeviceRoster == 4

\* Device d runs an operation with outcome o; the record of the operation
\* names the device.
DeviceTakes(d, o) ==
    /\ client' = IF d = "client" THEN o.client ELSE client
    /\ other' = IF d = "other" THEN o.client ELSE other
    /\ remote' = o.remote
    /\ lastOp' = [o.op EXCEPT !.input = <<d, @>>]
    /\ UNCHANGED <<removedIds, poll>>
    /\ UNCHANGED <<players, roundVars, applyVars, leaderboard, searchVars>>

DeviceLoads ==
    \E d \in Devices : \E o \in loadRemote(DeviceState(d), remote) : DeviceTakes(d, o)

DeviceGenerates ==
    \E d \in Devices :
        /\ DeviceState(d).currentMatches # <<>> \/ DeviceState(d).roundNumber < DeviceRounds
        /\ \E o \in handleGenerateNextRound(DeviceState(d), remote) : DeviceTakes(d, o)

DeviceSavesResults ==
    \E d \in Devices : \E o \in handleSaveResults(DeviceState(d), remote) : DeviceTakes(d, o)

\* The organiser has registered the players and saved; both devices have
\* loaded the record.
InitDevices ==
    /\ remote = put(payloadOf(registered(DeviceRoster)))
    /\ client = hydrateFromState(InitialClient, remote)
    /\ other = hydrateFromState(InitialClient, remote)
    /\ poll = NoPoll
    /\ removedIds = {}
    /\ lastOp = NoOp
    /\ players = <<>>
    /\ numCourts = 0
    /\ pastPartners = {} /\ callPartners = {}
    /\ result = NoResult
    /\ round = 0
    /\ currentMatches = <<>> /\ scoresByCourt = <<>> /\ applied = NoApplied
    /\ leaderboard = NoLeaderboard
    /\ SearchIdle

NextDevices ==
    \/ DeviceLoads
    \/ DeviceGenerates
    \/ DeviceSavesResults

SpecDevices == InitDevices /\ [][NextDevices]_vars

\* ------------------------------------------------------------------ claims
RosterIds == {players[i].id : i \in 1..Len(players)}

\* The ids on the sides of the returned matches, in order of appearance.
RECURSIVE idsOfMatches(_)
idsOfMatches(ms) ==
    IF ms = <<>> THEN <<>>
    ELSE SeqOf([k \in 1..Len(ms[1].side1) |-> ms[1].side1[k].id], Len(ms[1].side1))
         \o SeqOf([k \in 1..Len(ms[1].side2) |-> ms[1].side2[k].id], Len(ms[1].side2))
         \o idsOfMatches(Tail(ms))

Occurrences(seq, x) == Cardinality({k \in 1..Len(seq) : seq[k] = x})

AllTwoVersusTwo(ms) ==
    \A k \in 1..Len(ms) : Len(ms[k].side1) = 2 /\ Len(ms[k].side2) = 2

NoPlayerTwice(ms) ==
    \A k \in 1..Len(idsOfMatches(ms)) : Occurrences(idsOfMatches(ms), idsOfMatches(ms)[k]) = 1

\* Whether the ids in S can be split into pairs none of whose key is in past.
RECURSIVE CanPartition(_, _)
CanPartition(S, past) ==
    \/ S = {}
    \/ LET a == Min(S)
       IN  \E b \in S \ {a} : KeyOfIds(a, b) \notin past /\ CanPartition(S \ {a, b}, past)

\* C1: with players.length = numCourts*4 the call returns exactly numCourts
\* matches, each 2 versus 2, and every roster id appears exactly once on the
\* sides of the matches, whatever the history.
C1_FullRosterRound ==
    (result.kind # "none" /\ Len(players) = numCourts * 4) =>
        /\ result.kind = "ok"
        /\ Len(result.matches) = numCourts
        /\ AllTwoVersusTwo(result.matches)
        /\ \A id \in RosterIds : Occurrences(idsOfMatches(result.matches), id) = 1

C1_Witness ==
    /\ result.kind = "ok"
    /\ Len(players) = 4 /\ numCourts = 1
    /\ callPartners # {}
    /\ Len(result.matches) = 1

\* C2: with players.length < numCourts*4 the call throws "Not enough players
\* for all courts" and yields no matches, no usedPairs and no fallback flag,
\* whatever the history.
C2_InsufficientPlayers ==
    (result.kind # "none" /\ Len(players) < numCourts * 4) =>
        /\ result = Threw(NotEnoughPlayers)
        /\ pastPartners = callPartners

C2_Witness ==
    /\ result.kind = "error"
    /\ Len(players) = 3 /\ numCourts = 1
    /\ callPartners # {}

\* C3: when the roster can be split into pairs that avoid every key of the
\* history passed in, the call returns fallback = false and no pair of
\* usedPairs has its key in that history.
C3_StrictWhenPossible ==
    (result.kind = "ok" /\ CanPartition(RosterIds, callPartners)) =>
        /\ result.fallback = FALSE
        /\ \A k \in 1..Len(result.usedPairs) :
              KeyOfIds(result.usedPairs[k].p1.id, result.usedPairs[k].p2.id) \notin callPartners

C3_Witness ==
    /\ result.kind = "ok"
    /\ Len(players) = 4 /\ numCourts = 1
    /\ callPartners = {"1-2", "3-4"}
    /\ result.fallback = FALSE
    /\ Len(result.usedPairs) = 2

\* C4: when no split of the roster into pairs avoids the history (and
\* players.length >= numCourts*4), the call returns fallback = true and a
\* complete round: numCourts matches, each 2 versus 2, no player twice.
C4_FallbackRoundComplete ==
    (result.kind # "none" /\ Len(players) >= numCourts * 4
        /\ ~CanPartition(RosterIds, callPartners)) =>
        /\ result.kind = "ok"
        /\ result.fallback = TRUE
        /\ Len(result.matches) = numCourts
        /\ AllTwoVersusTwo(result.matches)
        /\ NoPlayerTwice(result.matches)

C4_Witness ==
    /\ result.kind = "ok"
    /\ Len(players) = 4 /\ numCourts = 1
    /\ callPartners = {"1-2", "1-3", "1-4", "2-3", "2-4", "3-4"}
    /\ result.fallback = TRUE
    /\ Len(result.usedPairs) = 2

\* C9: over consecutive rounds on a fixed roster of 4*numCourts players, each
\* round's usedPairs keys being merged into the history before the next
\* call, every round (fallback or not) has numCourts matches, each 2 versus
\* 2, uses every player exactly once and reports exactly 2*numCourts pairs.
C9_EveryStressRoundValid ==
    (round >= 1) =>
        /\ result.kind = "ok"
        /\ Len(result.matches) = numCourts
        /\ AllTwoVersusTwo(result.matches)
        /\ \A id \in RosterIds : Occurrences(idsOfMatches(result.matches), id) = 1
        /\ Len(result.usedPairs) = 2 * numCourts
        /\ pastPartners = callPartners \cup
              {KeyOfIds(result.usedPairs[k].p1.id, result.usedPairs[k].p2.id)
                 : k \in 1..Len(result.usedPairs)}

C9_Witness ==
    /\ round = MaxRounds
    /\ result.kind = "ok" /\ result.fallback = TRUE
    /\ Cardinality(callPartners) = 6
    /\ Len(result.usedPairs) = 2

\* C10 as stated: for every accepted roster, also one larger than
\* numCourts*4, every roster player is on exactly one side of exactly one match.
C10_EveryPlayerPlays ==
    (result.kind = "ok") =>
        \A id \in RosterIds : Occurrences(idsOfMatches(result.matches), id) = 1

\* C10 amended: for every accepted roster no player is on more than one side
\* of the round, only roster players play, and exactly 4*numCourts of them do;
\* so every player plays exactly once when players.length = numCourts*4 and
\* players.length - 4*numCourts players sit out otherwise.
C10_AtMostOnceAndFourPerCourt ==
    (result.kind = "ok") =>
        /\ \A id \in RosterIds : Occurrences(idsOfMatches(result.matches), id) <= 1
        /\ Range(idsOfMatches(result.matches)) \subseteq RosterIds
        /\ Cardinality(Range(idsOfMatches(result.matches))) = 4 * numCourts
        /\ Cardinality(RosterIds \ Range(idsOfMatches(result.matches)))
              = Len(players) - 4 * numCourts

C10_Witness ==
    /\ result.kind = "ok"
    /\ Len(players) = 5 /\ numCourts = 1
    /\ \E id \in RosterIds : Occurrences(idsOfMatches(result.matches), id) = 0

\* The partner keys of the sides of the matches.
keysOfSides(ms) ==
    {KeyOfIds(ms[k].side1[1].id, ms[k].side1[2].id) : k \in 1..Len(ms)}
    \cup {KeyOfIds(ms[k].side2[1].id, ms[k].side2[2].id) : k \in 1..Len(ms)}

\* C11 as stated: whenever usedPairs is not empty, the partner keys of
\* usedPairs are exactly the partner keys of the sides of the returned
\* matches, for every players.length >= numCourts*4.
C11_UsedPairsArePlayingPairs ==
    (result.kind = "ok" /\ result.usedPairs # <<>>) =>
        keysOfUsedPairs(result.usedPairs) = keysOfSides(result.matches)

\* C12: for every players.length >= numCourts*4 and on every path (strict,
\* relaxed, total fallback) the round has exactly numCourts matches, their
\* courtNumbers are 1..numCourts in ascending order, each side has exactly
\* two distinct players, and no player is on more than one side of the round.
C12_CourtsInOrderSidesOfTwo ==
    (result.kind # "none" /\ Len(players) >= numCourts * 4) =>
        /\ result.kind = "ok"
        /\ Len(result.matches) = numCourts
        /\ \A k \in 1..Len(result.matches) :
              /\ result.matches[k].courtNumber = k
              /\ Len(result.matches[k].side1) = 2
              /\ Len(result.matches[k].side2) = 2
              /\ result.matches[k].side1[1].id # result.matches[k].side1[2].id
              /\ result.matches[k].side2[1].id # result.matches[k].side2[2].id
        /\ NoPlayerTwice(result.matches)
        /\ Range(idsOfMatches(result.matches)) \subseteq RosterIds

\* The three paths on two courts: a strict round, a relaxed round and a
\* total-fallback round (nine players).
C12_Witness ==
    /\ result.kind = "ok"
    /\ numCourts = 2
    /\ Len(result.matches) = 2
    /\ result.matches[2].courtNumber = 2
    /\ Len(players) = 9
    /\ result.fallback = TRUE /\ result.usedPairs = <<>>

\* The result of the total-fallback path: no pairs reported, fallback set.
IsTotalFallback(r) == r.kind = "ok" /\ r.fallback = TRUE /\ r.usedPairs = <<>>

\* C20: the total-fallback path (groups of 4 from the shuffled list, usedPairs
\* empty, fallback = true) is entered only after the strict and the relaxed
\* search both failed; for players.length >= numCourts*4 that is exactly when
\* players.length is odd.  Otherwise the pairs of the search that succeeded
\* are reported, with fallback telling whether it was the relaxed one.
C20_TotalFallbackIffOdd ==
    (result.kind = "ok") =>
        /\ IsTotalFallback(result) <=> Len(players) % 2 = 1
        /\ IsTotalFallback(result) =>
              /\ ~CanPartition(RosterIds, callPartners)
              /\ ~CanPartition(RosterIds, {})
        /\ ~IsTotalFallback(result) =>
              /\ 2 * Len(result.usedPairs) = Len(players)
              /\ result.fallback <=> ~CanPartition(RosterIds, callPartners)

C20_Witness ==
    /\ IsTotalFallback(result)
    /\ Len(players) = 5 /\ numCourts = 1
    /\ callPartners = {}
    /\ Len(result.matches) = 1

\* ---- buildPairs
BuiltIds == {built.shuffled[i].id : i \in 1..Len(built.shuffled)}

\* The ids of the collected pairs, in order.
RECURSIVE idsOfPairs(_)
idsOfPairs(prs) ==
    IF prs = <<>> THEN <<>>
    ELSE <<prs[1].p1.id, prs[1].p2.id>> \o idsOfPairs(Tail(prs))

\* The keys buildPairs must avoid in the call made.
Forbidden == IF built.allowRepeat THEN {} ELSE built.past

\* C16: whatever order the candidates are tried in (random, or by wins for a
\* streaking player), buildPairs returns true exactly when the players can
\* be split into pairs allowed by (pastPartners, allowRepeat); on true the
\* collected pairs are allowed, pairwise disjoint and cover every player.
C16_BuildPairsSoundComplete ==
    (built.kind = "done") =>
        /\ built.ok <=> CanPartition(BuiltIds, Forbidden)
        /\ built.ok =>
              /\ \A k \in 1..Len(built.current) :
                    /\ built.current[k].p1.id # built.current[k].p2.id
                    /\ KeyOfIds(built.current[k].p1.id, built.current[k].p2.id) \notin Forbidden
              /\ \A id \in BuiltIds : Occurrences(idsOfPairs(built.current), id) = 1
              /\ Range(idsOfPairs(built.current)) = BuiltIds

\* A streaking first player (id 1) whose candidate with the most wins (id 2)
\* is a past partner: the strict search pairs it with somebody else.
C16_Witness ==
    /\ built.kind = "done" /\ built.ok /\ ~built.allowRepeat
    /\ Len(built.shuffled) = 4
    /\ built.shuffled[1].id = 1 /\ built.shuffled[1].lossStreak >= STREAK_THRESHOLD
    /\ built.past = {"1-2", "1-3"}
    /\ Len(built.current) = 2

\* C17 as stated: with allowRepeat = true buildPairs succeeds for every
\* player list, and with allowRepeat = false it fails only when the history
\* blocks every full pairing.
C17_FailsOnlyByHistory ==
    (built.kind = "done" /\ ~built.ok) =>
        /\ ~built.allowRepeat
        /\ ~CanPartition(BuiltIds, built.past)

\* C17 amended: for every player list of even length, buildPairs succeeds
\* with allowRepeat = true, and with allowRepeat = false it fails only when
\* every full pairing contains a pair of the history; a list of odd length
\* fails in both modes, whatever the history.
C17_FailsOnlyByHistoryWhenEven ==
    (built.kind = "done") =>
        /\ (Len(built.shuffled) % 2 = 0 /\ ~built.ok) =>
              /\ ~built.allowRepeat
              /\ CanPartition(BuiltIds, {})
              /\ ~CanPartition(BuiltIds, built.past)
        /\ (Len(built.shuffled) % 2 = 1) => ~built.ok

C17_Witness ==
    /\ built.kind = "done" /\ ~built.ok /\ ~built.allowRepeat
    /\ Len(built.shuffled) = 4
    /\ built.past = {"1-2", "1-3", "2-3"}

\* ---- applyResults
IndexOfId(id) ==
    IF \E i \in 1..Len(players) : players[i].id = id
    THEN CHOOSE i \in 1..Len(players) : players[i].id = id
    ELSE 0

DiffOf(m) == scoresByCourt[m.courtNumber].side1.v - scoresByCourt[m.courtNumber].side2.v

\* What a player of a side ends with, given what the side's point
\* difference is and whether the side won.
SideUpdated(side, gain, won) ==
    \A k \in 1..Len(side) :
        LET i == IndexOfId(side[k].id)
        IN  i # 0 =>
              /\ applied.updated[i].pointDiff = players[i].pointDiff + gain
              /\ applied.updated[i].wins = players[i].wins + (IF won THEN 1 ELSE 0)
              /\ applied.updated[i].lossStreak = (IF won THEN 0 ELSE players[i].lossStreak + 1)

\* C5: for every match with a valid score, diff = side1 - side2, each side1
\* player gets pointDiff + diff and each side2 player pointDiff - diff; the
\* players of the winning side (side1 iff diff > 0) get wins + 1 and
\* lossStreak 0, those of the losing side keep wins and get lossStreak + 1.
C5_ScoresApplied ==
    (applied.kind = "ok" /\ NoPlayerTwice(currentMatches)) =>
        \A k \in 1..Len(currentMatches) :
            LET m == currentMatches[k]
            IN  /\ DiffOf(m) # 0
                /\ SideUpdated(m.side1, DiffOf(m), DiffOf(m) > 0)
                /\ SideUpdated(m.side2, -DiffOf(m), DiffOf(m) < 0)

C5_Witness ==
    /\ applied.kind = "ok"
    /\ Len(currentMatches) = 2
    /\ DiffOf(currentMatches[1]) = -2
    /\ DiffOf(currentMatches[2]) = 1
    /\ players[1].lossStreak = STREAK_THRESHOLD
    /\ applied.updated[1].lossStreak = STREAK_THRESHOLD + 1

HasEntry(m) == m.courtNumber \in DOMAIN scoresByCourt
BelowZero(x) == x.kind = "-Infinity" \/ (x.kind = "num" /\ x.v < 0)
NotFinite(m) ==
    scoresByCourt[m.courtNumber].side1.kind # "num" \/ scoresByCourt[m.courtNumber].side2.kind # "num"
HasNegative(m) ==
    BelowZero(scoresByCourt[m.courtNumber].side1) \/ BelowZero(scoresByCourt[m.courtNumber].side2)
BothEqual(m) ==
    /\ scoresByCourt[m.courtNumber].side1.kind = "num"
    /\ scoresByCourt[m.courtNumber].side1 = scoresByCourt[m.courtNumber].side2
FailsValidation(m) ==
    ~HasEntry(m) \/ NotFinite(m) \/ HasNegative(m) \/ BothEqual(m)

\* The message the claim expects for a match that fails validation.
ExpectedMessage(m) ==
    IF ~HasEntry(m) THEN "Missing score for court " \o ToString(m.courtNumber)
    ELSE IF NotFinite(m) THEN "Invalid score on court " \o ToString(m.courtNumber)
    ELSE IF HasNegative(m) THEN "Negative score on court " \o ToString(m.courtNumber)
    ELSE "Scores cannot be equal on court " \o ToString(m.courtNumber)

FailingMatches == {k \in 1..Len(currentMatches) : FailsValidation(currentMatches[k])}

\* C6: applyResults throws the missing-score error for a court without an
\* entry, the negative-score error for a score below 0 and the equal-score
\* error for equal scores; the checks run per match in the order missing,
\* non-finite, negative, equal, and the first failing check of the first
\* failing match in the list decides the error.
C6_FirstFailingCheckDecides ==
    (applied.kind # "none") =>
        IF FailingMatches = {}
        THEN applied.kind = "ok"
        ELSE /\ applied.kind = "error"
             /\ applied.error = ExpectedMessage(currentMatches[Min(FailingMatches)])

C6_Witness ==
    /\ applied.kind = "error"
    /\ Len(currentMatches) = 2
    /\ FailingMatches = {2}
    /\ currentMatches[2].courtNumber = 1
    /\ 1 \in DOMAIN scoresByCourt
    /\ scoresByCourt[1] = [side1 |-> Num(-1), side2 |-> Num(-1)]
    /\ applied.error = "Negative score on court 1"

\* C7: applyResults never changes the player objects passed in, and when any
\* match of the list fails validation, also after earlier matches of the
\* same call validated, it throws and returns no updated collection.
C7_AllOrNothing ==
    [][(applied'.kind # "none") =>
          /\ players' = players
          /\ (FailingMatches # {}) =>
                (applied'.kind = "error" /\ applied'.updated = <<>>)]_vars

C7_Witness ==
    /\ applied.kind = "error"
    /\ Len(currentMatches) = 2
    /\ FailingMatches = {2}
    /\ DiffOf(currentMatches[1]) = 2
    /\ applied.players # <<>>

\* ---- sortLeaderboard
\* a may stand directly before b on the leaderboard.
RanksBeforeOrEqual(a, b) ==
    \/ a.wins > b.wins
    \/ a.wins = b.wins /\ a.pointDiff > b.pointDiff
    \/ a.wins = b.wins /\ a.pointDiff = b.pointDiff
          /\ collationRank(a.name) <= collationRank(b.name)

InLeaderboardOrder(s) ==
    \A k \in 1..(Len(s) - 1) : RanksBeforeOrEqual(s[k], s[k + 1])

IsPermutationOf(s, t) ==
    /\ Len(s) = Len(t)
    /\ \A x \in Range(s) \cup Range(t) : Occurrences(s, x) = Occurrences(t, x)

\* C8: sortLeaderboard returns a permutation of its input in which every
\* adjacent pair is ordered by wins descending, then pointDiff descending,
\* then name ascending; the input list is not reordered, and an input that is
\* already in that order is returned in the same order.
C8_LeaderboardSorted ==
    [][(leaderboard'.kind = "ok") =>
          /\ IsPermutationOf(leaderboard'.sorted, players)
          /\ InLeaderboardOrder(leaderboard'.sorted)
          /\ players' = players
          /\ InLeaderboardOrder(players) => leaderboard'.sorted = players]_vars

C8_Witness ==
    /\ leaderboard.kind = "ok"
    /\ Len(players) = 3
    /\ ~InLeaderboardOrder(players)
    /\ players[1].wins = players[2].wins /\ players[1].pointDiff = players[2].pointDiff
    /\ players[1].name = "Bob" /\ players[2].name = "bob"
    /\ players[3].wins > players[1].wins
    /\ leaderboard.sorted = <<players[3], players[2], players[1]>>

\* ---- optimizeCourts
\* C18: given exactly 2*numCourts pairs (numCourts >= 1) optimizeCourts does
\* not return null and returns a list of 2*numCourts pairs that holds every
\* input pair exactly once; given fewer pairs it returns null; and when the
\* search ends its undo steps have put the working list of remaining pairs
\* back in the input order (and left chosen empty).
C18_OptimizeReturnsPermutation ==
    (optimized.kind = "done") =>
        /\ (Len(optimized.pairs) = 2 * optimized.nc) =>
              /\ optimized.found
              /\ Len(optimized.best) = 2 * optimized.nc
              /\ IsPermutationOf(optimized.best, optimized.pairs)
        /\ (Len(optimized.pairs) < 2 * optimized.nc) => ~optimized.found
        /\ optimized.remaining = optimized.pairs
        /\ optimized.chosen = <<>>

\* Four pairs on two courts, returned in another order than they came in.
C18_Witness ==
    /\ optimized.kind = "done" /\ optimized.found
    /\ optimized.nc = 2 /\ Len(optimized.pairs) = 4
    /\ optimized.best # optimized.pairs
    /\ optimized.best[1] = optimized.pairs[1]
    /\ optimized.best[2] = optimized.pairs[4]

\* The cost of a court as the claim gives it, in hundredths and without noise.
ClaimCost(a, b) ==
    LET imbalance == Abs((a.p1.wins + a.p2.wins) - (b.p1.wins + b.p2.wins))
        streaker == \E q \in {a.p1, a.p2, b.p1, b.p2} : q.lossStreak >= 3
    IN  imbalance * 100 + (IF streaker /\ imbalance >= 3 THEN (imbalance - 2) * 300 ELSE 0)

\* The noise-free cost of the matching [t1, t2, t1, t2, ...].
RECURSIVE MatchingCost(_)
MatchingCost(ordered) ==
    IF Len(ordered) < 2 THEN 0
    ELSE ClaimCost(ordered[1], ordered[2]) + MatchingCost(SubSeq(ordered, 3, Len(ordered)))

\* The least noise-free cost over all perfect matchings of the pairs.
RECURSIVE MinMatchingCost(_)
MinMatchingCost(prs) ==
    IF Len(prs) < 2 THEN 0
    ELSE Min({ClaimCost(prs[1], prs[k]) + MinMatchingCost(RemoveAt(RemoveAt(prs, k), 1))
                : k \in 2..Len(prs)})

\* C19: for 2*numCourts pairs the matching returned has a noise-free cost
\* within 2*numCourts*m of the least cost over all perfect matchings, m being
\* the largest noise magnitude drawn during the search (at most 0.35); so it
\* is a least-cost matching when the noise is 0.
C19_OptimizeWithinNoiseOfMinimum ==
    (optimized.kind = "done" /\ Len(optimized.pairs) = 2 * optimized.nc) =>
        /\ optimized.found
        /\ optimized.maxNoise <= MAX_NOISE
        /\ MatchingCost(optimized.best) >= MinMatchingCost(optimized.pairs)
        /\ MatchingCost(optimized.best) - MinMatchingCost(optimized.pairs)
              <= 2 * optimized.nc * optimized.maxNoise
        /\ Abs(optimized.bestCost - MatchingCost(optimized.best))
              <= optimized.nc * optimized.maxNoise

\* A search on two courts with a streaker and noise drawn, where the pairs as
\* they came in are not a cheapest matching and the one returned is.
C19_Witness ==
    /\ optimized.kind = "done" /\ optimized.found
    /\ optimized.nc = 2 /\ Len(optimized.pairs) = 4
    /\ \E k \in 1..4 : optimized.pairs[k].p1.lossStreak >= STREAK_THRESHOLD
    /\ optimized.maxNoise > 0
    /\ optimized.bestCost < MatchingCost(optimized.best)
    /\ MatchingCost(optimized.pairs) > MatchingCost(optimized.best)
    /\ MatchingCost(optimized.best) = MinMatchingCost(optimized.pairs)

\* ---- client
\* C13: in any sequence of addPlayer, removePlayer, round generation,
\* addPartnerKeys, result application and hydration, pastPartners never loses
\* a key; the only step that may drop keys is resetTournament.
C13_PastPartnersOnlyGrows ==
    [][lastOp'.name # "resetTournament"
          => Range(client.pastPartners) \subseteq Range(client'.pastPartners)]_vars

\* The ids of the client's roster.
ClientIds == {p.id : p \in Range(client.players)}

\* C14: saving a state with PUT and loading it with GET plus hydrateFromState,
\* with no other write in between, restores exactly the saved players,
\* roundNumber, pastPartners, nextId, currentMatches and currentWinners: after
\* a PUT that succeeded the stored record holds the six fields of the state
\* saved, and a load of a stored record leaves the client with the six fields
\* of that record.
C14_PutGetRoundTrip ==
    /\ [](lastOp.ok /\ lastOp.name \in {"saveRemote", "handleGenerateNextRound",
                                         "handleSaveResults"}
            => remote # NoRecord /\ StateOf(parse(remote)) = StateOf(client))
    /\ [][lastOp'.name = "loadRemote" /\ lastOp'.ok /\ remote # NoRecord
            => StateOf(client') = StateOf(parse(remote))]_vars

\* A load has brought back a record saved while a round was active and whose
\* nextId is more than one above its largest id; a player removed since the
\* save is in the roster again.
C14_Witness ==
    /\ lastOp = Op("loadRemote", TRUE)
    /\ remote # NoRecord
    /\ client.currentMatches # <<>>
    /\ client.pastPartners # <<>>
    /\ client.nextId > maxIdOf(client.players) + 1
    /\ removedIds \cap ClientIds # {}

\* C15: player ids in the roster are pairwise distinct, nextId is greater
\* than every id in the roster, and the id of a removed player is never given
\* to a player added later.
C15_IdsUniqueAndNeverReused ==
    /\ [](/\ \A i, j \in 1..Len(client.players) :
                 client.players[i].id = client.players[j].id => i = j
           /\ \A p \in Range(client.players) : client.nextId > p.id)
    /\ [][lastOp'.name = "addPlayer" /\ lastOp'.ok
            => client'.players[Len(client'.players)].id \notin removedIds]_vars

\* C21: handleGenerateNextRound invoked while currentMatches is non-empty
\* changes none of roundNumber, currentMatches, pastPartners, players and
\* sends no PUT; currentMatches goes from non-empty to a different non-empty
\* value only through save-results or a remote load.
C21_NoDrawWhileRoundActive ==
    /\ [][client.currentMatches # <<>> /\ lastOp'.name = "handleGenerateNextRound"
            => /\ client'.roundNumber = client.roundNumber
               /\ client'.currentMatches = client.currentMatches
               /\ client'.pastPartners = client.pastPartners
               /\ client'.players = client.players
               /\ remote' = remote]_vars
    /\ [][(/\ client.currentMatches # <<>>
           /\ client'.currentMatches # <<>>
           /\ client'.currentMatches # client.currentMatches)
            => lastOp'.name \in {"handleSaveResults", "loadRemote"}]_vars

\* The draw button was pressed while a round was active and stored.
C21_Witness ==
    /\ lastOp = Op("handleGenerateNextRound", FALSE)
    /\ client.currentMatches # <<>>
    /\ client.roundNumber > 0
    /\ remote # NoRecord

\* Every court of ms has two entered, finite, non-negative, unequal scores
\* among the texts raws.
EveryCourtScored(ms, raws) ==
    \A m \in Range(ms) :
        /\ m.courtNumber \in DOMAIN raws
        /\ \A side \in {"side1", "side2"} :
              /\ raws[m.courtNumber][side] # ""
              /\ NumberOf(raws[m.courtNumber][side]).kind = "num"
              /\ NumberOf(raws[m.courtNumber][side]).v >= 0
        /\ NumberOf(raws[m.courtNumber].side1) # NumberOf(raws[m.courtNumber].side2)

\* C22: handleSaveResults acts only when a round is active and every court
\* of it has two entered, finite, non-negative, unequal scores; when it acts,
\* players becomes applyResults of the current players and matches,
\* currentMatches and currentWinners become empty, and roundNumber and
\* pastPartners are unchanged; otherwise players, currentMatches, roundNumber
\* and pastPartners are all unchanged.
C22_SaveResultsFrame ==
    [][lastOp'.name = "handleSaveResults"
         => IF client.currentMatches # <<>>
               /\ EveryCourtScored(client.currentMatches, lastOp'.input)
            THEN /\ client'.players =
                       applyResults(client.players, client.currentMatches,
                                    numericScores(lastOp'.input)).updated
                 /\ client'.currentMatches = <<>>
                 /\ client'.currentWinners = <<>>
                 /\ client'.roundNumber = client.roundNumber
                 /\ client'.pastPartners = client.pastPartners
            ELSE /\ client'.players = client.players
                 /\ client'.currentMatches = client.currentMatches
                 /\ client'.roundNumber = client.roundNumber
                 /\ client'.pastPartners = client.pastPartners]_vars

\* Results were saved: the round is over, somebody has won, and the round
\* number and the partner history of the draw are still there.
C22_Witness ==
    /\ lastOp.name = "handleSaveResults" /\ lastOp.ok
    /\ client.currentMatches = <<>>
    /\ \E p \in Range(client.players) : p.wins > 0
    /\ client.roundNumber > 0
    /\ client.pastPartners # <<>>

\* C23: when handleGenerateNextRound fails, because generateRound raised the
\* insufficient-players error or because saving the draw failed, the
\* client's roundNumber, pastPartners and players equal their values before
\* the call and currentMatches is empty as before.
C23_FailedDrawCommitsNothing ==
    [][(/\ lastOp'.name = "handleGenerateNextRound"
        /\ ~lastOp'.ok
        /\ client.currentMatches = <<>>)
         => /\ client'.roundNumber = client.roundNumber
            /\ client'.pastPartners = client.pastPartners
            /\ client'.players = client.players
            /\ client'.currentMatches = <<>>]_vars

\* ---- applyResults: players outside the matches
\* The matches with a player whose id is not in the roster.
MatchesWithRemoved ==
    {k \in 1..Len(currentMatches) :
        \E q \in Range(currentMatches[k].side1) \cup Range(currentMatches[k].side2) :
            IndexOfId(q.id) = 0}

\* C26: the roster players that are on no side of any match passed to
\* applyResults come back with wins, pointDiff, lossStreak, id and name
\* unchanged, and a match player whose id is not in the roster is skipped
\* without error (the call fails only for a score that fails validation)
\* while the other players of that match are still updated.
C26_OthersUnchangedRemovedSkipped ==
    /\ (applied.kind # "none" /\ FailingMatches = {}) => applied.kind = "ok"
    /\ applied.kind = "ok" =>
          /\ Len(applied.updated) = Len(players)
          /\ \A i \in 1..Len(players) :
                players[i].id \notin Range(idsOfMatches(currentMatches)) =>
                    /\ applied.updated[i].wins = players[i].wins
                    /\ applied.updated[i].pointDiff = players[i].pointDiff
                    /\ applied.updated[i].lossStreak = players[i].lossStreak
                    /\ applied.updated[i].id = players[i].id
                    /\ applied.updated[i].name = players[i].name
          /\ \A k \in MatchesWithRemoved :
                LET m == currentMatches[k]
                IN  /\ SideUpdated(m.side1, DiffOf(m), DiffOf(m) > 0)
                    /\ SideUpdated(m.side2, -DiffOf(m), DiffOf(m) < 0)

\* Player 4 was removed during a round on one court: the partner, player 3,
\* has the win, and players 5 to 8 did not play.
C26_Witness ==
    /\ applied.kind = "ok"
    /\ Len(players) = 7
    /\ Len(currentMatches) = 1
    /\ MatchesWithRemoved = {1}
    /\ DiffOf(currentMatches[1]) < 0
    /\ applied.updated[3].wins = players[3].wins + 1
    /\ applied.updated[4] = players[4]

\* ---- rounds of a tournament
\* C27: with a fixed roster of even size >= numCourts*4 and pastPartners
\* accumulated from each round's usedPairs, once a generated round reports
\* fallback = true the next round of the same tournament reports it too, and
\* so every later one.
C27_FallbackIsStable ==
    [][(result.kind = "ok" /\ result.fallback /\ result'.kind = "ok")
          => result'.fallback]_vars

\* The third round of four players who joined after two rounds: the first
\* round drawn had the last fresh pairs, the second and this one fall back.
C27_Witness ==
    /\ result.kind = "ok" /\ result.fallback
    /\ round = 3
    /\ Len(players) = 4
    /\ ~CanPartition(RosterIds, callPartners)
    /\ pastPartners = callPartners

\* ---- point differential
RECURSIVE SumOf(_, _)
\* The sum of a field over a list of players.
SumOf(ps, field) == IF ps = <<>> THEN 0 ELSE ps[1][field] + SumOf(Tail(ps), field)

\* Every player of every match of the state is in its roster, and the
\* roster's pointDiff values sum to 0.
BalancedState(s) ==
    /\ Range(idsOfMatches(s.currentMatches)) \subseteq {p.id : p \in Range(s.players)}
    /\ SumOf(s.players, "pointDiff") = 0

\* The ids written in a stored list of players.
StoredIds(list) == {list.items[i].members.id.v : i \in 1..Len(list.items)}

RECURSIVE StoredPointDiff(_, _)
\* The sum of the pointDiff values written in a stored list of players, from
\* the k-th on.
StoredPointDiff(list, k) ==
    IF k > Len(list.items) THEN 0
    ELSE list.items[k].members.pointDiff.v + StoredPointDiff(list, k + 1)

\* The same for a stored record.
BalancedRecord(j) ==
    /\ \A k \in 1..Len(j.members.currentMatches.items) :
          LET m == j.members.currentMatches.items[k].members
          IN  StoredIds(m.side1) \cup StoredIds(m.side2) \subseteq StoredIds(j.members.players)
    /\ StoredPointDiff(j.members.players, 1) = 0

\* The client's state and the stored one are balanced.
Balanced ==
    /\ BalancedState(client)
    /\ remote # NoRecord => BalancedRecord(remote)

\* C28: when every player of every match is in the roster (and on one side
\* only, as in every round drawn), saving results leaves the sum of pointDiff
\* over the roster unchanged and raises the sum of wins by exactly 2 per
\* match; and from a fresh tournament, every step other than the removal of
\* a player keeps the roster's pointDiff values summing to 0, on the client
\* and on the server.
C28_PointDiffZeroSum ==
    /\ [][(/\ lastOp'.name = "handleSaveResults"
           /\ client.currentMatches # <<>>
           /\ client'.currentMatches = <<>>
           /\ Range(idsOfMatches(client.currentMatches))
                 \subseteq {p.id : p \in Range(client.players)})
            => /\ SumOf(client'.players, "pointDiff") = SumOf(client.players, "pointDiff")
               /\ SumOf(client'.players, "wins")
                     = SumOf(client.players, "wins") + 2 * Len(client.currentMatches)]_vars
    /\ [][(Balanced /\ lastOp'.name # "removePlayer") => Balanced']_vars

\* Results were saved in a tournament in which nobody was removed: there is
\* a winner with a positive and a loser with a negative pointDiff.
C28_Witness ==
    /\ lastOp.name = "handleSaveResults" /\ lastOp.ok
    /\ removedIds = {}
    /\ Balanced
    /\ \E p, q \in Range(client.players) : p.pointDiff > 0 /\ q.pointDiff < 0
    /\ SumOf(client.players, "wins") = 2

\* ---- leaderboard poll
\* C24: whatever the order of timer firings, visibility changes, request
\* completions and the unmount, at most one loadRemote request is in flight
\* and at most one timer is pending.
C24_OneRequestOneTimer ==
    /\ poll.requests <= 1
    /\ Cardinality(poll.pending) <= 1

\* The document became visible while a request was in flight: the request
\* goes on and one retry timer is pending.
C24_Witness ==
    /\ poll.event = "visible"
    /\ poll.requests = 1
    /\ poll.pending = {[handle |-> poll.timer, ms |-> RETRY_MS]}

\* C25: a request is started only while the document is visible and the
\* effect is not stopped; once stopped, no request starts and no timer is
\* pending, also when a request was in flight or a retry timer was set at the
\* cleanup.
C25_NoRequestHiddenOrStopped ==
    /\ [](poll.stopped => poll.pending = {})
    /\ [][(poll'.requests > poll.requests) => (poll'.visible /\ ~poll'.stopped)]_vars
    /\ [][poll.stopped => poll'.requests <= poll.requests]_vars

\* A request that was in flight at the cleanup has settled while the document
\* was visible: nothing is scheduled.
C25_Witness ==
    /\ poll.stopped
    /\ poll.visible
    /\ poll.event \in {"loaded", "failed"}
    /\ poll.requests = 0
    /\ poll.pending = {}

\* A request starts in this step.
RequestStarts == poll'.requests = poll.requests + 1

\* C30: if the page stays mounted and the document visible, requests are
\* started again and again; a request that settles, failed or not, leaves a
\* poll timer pending; a change to visible starts a request in the same step
\* unless one is in flight.
C30_PollingStaysAlive ==
    /\ (<>[](poll.visible /\ ~poll.stopped)) => []<><<RequestStarts>>_vars
    /\ [][(poll'.event \in {"loaded", "failed"} /\ poll'.requests < poll.requests /\ ~poll.stopped)
             => poll'.pending = {[handle |-> poll'.timer, ms |-> POLL_MS]}]_vars
    /\ [][(~poll.visible /\ poll'.visible /\ poll.listening /\ ~poll.inFlight)
             => RequestStarts]_vars

\* A poll timer has fired on a visible document and started a request.
C30_Witness ==
    /\ poll.event = "timer"
    /\ poll.visible
    /\ poll.requests = 1
    /\ poll.pending = {}

\* ---- two devices
\* The round number and the matches written in the stored record.
StoredRoundNumber(j) == j.members.roundNumber.v
StoredMatches(j) == j.members.currentMatches

\* The step is a results-save, by some device, of the round that is stored.
SavesStoredRound ==
    /\ lastOp'.name = "handleSaveResults"
    /\ \E d \in Devices :
          /\ lastOp'.input[1] = d
          /\ stringify(payloadOf(DeviceState(d))).members.currentMatches = StoredMatches(remote)

\* C29: with two devices on one tournament, each acting on the copy it last
\* loaded, the stored round number never decreases and a stored active round
\* is replaced only by the results-save of that round.
C29_StoredRoundProtected ==
    /\ [][StoredRoundNumber(remote') >= StoredRoundNumber(remote)]_vars
    /\ [][(StoredMatches(remote).items # <<>> /\ StoredMatches(remote') # StoredMatches(remote))
             => SavesStoredRound]_vars

====
